---------------------------- MODULE Spec2Model ----------------------------
(***************************************************************************)
(* A model of cross_analysis.py (scVAE): the directory scanner, the string *)
(* filter, the name formatter, the model-ID generator and the checkpoint   *)
(* comparator.                                                             *)
(*                                                                         *)
(* Python strings are sequences of one-character strings, so that `in`,    *)
(* str.replace, str.split, str.isdigit and int() are computed and not      *)
(* assumed.  Python dicts are insertion-ordered: a dict is a sequence of   *)
(* <<key, value>> pairs with distinct keys.                                *)
(***************************************************************************)
EXTENDS Integers, Sequences, FiniteSets, TLC

VARIABLES
    ms,                 \* the last call of matchString: arguments and result
    walk,               \* testMetricsInResultsDirectory: the os.walk state
    test_metrics_set,   \* testMetricsInResultsDirectory: the mapping built
    bv,                 \* the last call of bestModelVersion
    model_IDs,          \* the modelID generator: position in product(values, values)
    ids,                \* what next(model_IDs) has returned so far
    run,                \* main: the loop over data sets and models
    tn                  \* titleFromName: the call in progress; `calls` are
                        \* the calls of a replacement function in the
                        \* last pass of the inner loop

vars == <<ms, walk, test_metrics_set, bv, model_IDs, ids, run, tn>>

\* ------------------------------------------------------------------ bounds

\* The longest inclusion or exclusion list handed to matchString.
MaxFilterLen == 2

\* The most data sets in test_metrics_set, and the most models of one data
\* set, in a run of main.
MaxDataSets == 3

MaxModels == 9

\* The most pattern tables in the list handed to titleFromName.
MaxTables == 2

\* ------------------------------------------------------- Python primitives

\* Python's bool and int values, kept apart: True * True is the int 1.
PyBool(b) == [type |-> "bool", val |-> IF b THEN 1 ELSE 0]

PyInt(n) == [type |-> "int", val |-> n]

\* `x *= y` on bools and ints: the product is an int.
PyMul(x, y) == PyInt(x.val * y.val)

\* bool(x), as `if x:` and `if not x:` evaluate it.
Truthy(x) == x.val # 0

\* `a in b` on strings: a occurs in b as a contiguous substring.
IsSubstring(a, b) ==
    \E i \in 0..(Len(b) - Len(a)) : SubSeq(b, i + 1, i + Len(a)) = a

\* All sequences over S of length at most n.
SeqsUpTo(S, n) == UNION {[1..k -> S] : k \in 0..n}

\* ------------------------------------------------------------ matchString

RECURSIVE MatchIncluded(_, _, _)
\* The first loop of matchString, run from index 1 on `match`.
MatchIncluded(match, string, included_strings) ==
    IF included_strings = <<>> THEN match
    ELSE MatchIncluded(
            IF IsSubstring(Head(included_strings), string)
                THEN PyMul(match, PyBool(TRUE))
                ELSE PyMul(match, PyBool(FALSE)),
            string, Tail(included_strings))

RECURSIVE MatchExcluded(_, _, _)
\* The second loop of matchString.
MatchExcluded(match, string, excluded_strings) ==
    IF excluded_strings = <<>> THEN match
    ELSE MatchExcluded(
            IF ~IsSubstring(Head(excluded_strings), string)
                THEN PyMul(match, PyBool(TRUE))
                ELSE PyMul(match, PyBool(FALSE)),
            string, Tail(excluded_strings))

\* A plausible slip: `match = ...` in place of `match *= ...` in the second
\* loop, so that the last excluded string alone decides.
RECURSIVE MatchExcludedAssign(_, _, _)
MatchExcludedAssign(match, string, excluded_strings) ==
    IF excluded_strings = <<>> THEN match
    ELSE MatchExcludedAssign(
            IF ~IsSubstring(Head(excluded_strings), string)
                THEN PyBool(TRUE)
                ELSE PyBool(FALSE),
            string, Tail(excluded_strings))

matchStringAssign(string, included_strings, excluded_strings) ==
    MatchExcludedAssign(
        MatchIncluded(PyBool(TRUE), string, included_strings),
        string, excluded_strings)

matchString(string, included_strings, excluded_strings) ==
    MatchExcluded(
        MatchIncluded(PyBool(TRUE), string, included_strings),
        string, excluded_strings)

\* The strings and search strings matchString is called on.
MatchStrings ==
    {<<>>, <<"a">>, <<"b">>, <<"a", "b">>, <<"b", "a">>, <<"a", "a", "b">>}

MatchSearchStrings == {<<>>, <<"a">>, <<"b">>, <<"a", "b">>}

MsIdle == [pc |-> "idle"]

\* The calls of matchString: any string with any two filter lists.
MatchCalls ==
    {[pc |-> "call",
      string |-> string,
      included_strings |-> included_strings,
      excluded_strings |-> excluded_strings] :
        string \in MatchStrings,
        included_strings \in SeqsUpTo(MatchSearchStrings, MaxFilterLen),
        excluded_strings \in SeqsUpTo(MatchSearchStrings, MaxFilterLen)}

\* One call of matchString returns.
CallMatchString ==
    /\ ms.pc = "call"
    /\ ms' = [pc |-> "done",
              string |-> ms.string,
              included_strings |-> ms.included_strings,
              excluded_strings |-> ms.excluded_strings,
              result |-> matchString(ms.string, ms.included_strings,
                                     ms.excluded_strings)]
    /\ UNCHANGED <<walk, test_metrics_set, bv, model_IDs, ids, run, tn>>

\* ------------------------------------------------------------- characters

(***************************************************************************)
(* A character of a Python string is a string of the model: a printable    *)
(* ASCII character is itself, tab, line feed, carriage return and form     *)
(* feed are "\t", "\n", "\r" and "\f", and every other character is "U+"   *)
(* and its code point in four to six upper-case hexadecimal digits, as     *)
(* "U+00E9" and "U+1D7CE".  What Python decides by the Unicode database    *)
(* (str.isdigit, int, float, \d, \w, repr) is decided by the ranges of     *)
(* code points of that database, of Unicode 14.0.0.                        *)
(***************************************************************************)
Digits == <<"0", "1", "2", "3", "4", "5", "6", "7", "8", "9">>

\* An ASCII digit
IsDigitChar(c) == \E d \in 1..10 : Digits[d] = c

HexDigits ==
    <<"0", "1", "2", "3", "4", "5", "6", "7", "8", "9", "A", "B", "C", "D",
      "E", "F">>

HexValue(h) == (CHOOSE d \in 1..16 : HexDigits[d] = h) - 1

RECURSIVE HexNumber(_, _)
HexNumber(hex, n) ==
    IF Len(hex) = 0 THEN n
    ELSE HexNumber(Tail(hex), 16 * n + HexValue(Head(hex)))

\* Whether the character is written by its code point
IsCodePoint(c) == Len(c) > 1

\* The code point of a character written by it
CodePoint(c) == HexNumber(SubSeq(c, 3, Len(c)), 0)

InRanges(ranges, cp) ==
    \E i \in 1..Len(ranges) : ranges[i][1] <= cp /\ cp <= ranges[i][2]

\* The characters outside ASCII that str.isdecimal() holds of, which are those
\* \d matches and int() and float() read as digits: ranges of code points,
\* each one or more runs of the ten digits 0 to 9 in their order.
decimal_ranges ==
    << <<1632, 1641>>, <<1776, 1785>>, <<1984, 1993>>, <<2406, 2415>>,
      <<2534, 2543>>, <<2662, 2671>>, <<2790, 2799>>, <<2918, 2927>>,
      <<3046, 3055>>, <<3174, 3183>>, <<3302, 3311>>, <<3430, 3439>>,
      <<3558, 3567>>, <<3664, 3673>>, <<3792, 3801>>, <<3872, 3881>>,
      <<4160, 4169>>, <<4240, 4249>>, <<6112, 6121>>, <<6160, 6169>>,
      <<6470, 6479>>, <<6608, 6617>>, <<6784, 6793>>, <<6800, 6809>>,
      <<6992, 7001>>, <<7088, 7097>>, <<7232, 7241>>, <<7248, 7257>>,
      <<42528, 42537>>, <<43216, 43225>>, <<43264, 43273>>, <<43472, 43481>>,
      <<43504, 43513>>, <<43600, 43609>>, <<44016, 44025>>, <<65296, 65305>>,
      <<66720, 66729>>, <<68912, 68921>>, <<69734, 69743>>, <<69872, 69881>>,
      <<69942, 69951>>, <<70096, 70105>>, <<70384, 70393>>, <<70736, 70745>>,
      <<70864, 70873>>, <<71248, 71257>>, <<71360, 71369>>, <<71472, 71481>>,
      <<71904, 71913>>, <<72016, 72025>>, <<72784, 72793>>, <<73040, 73049>>,
      <<73120, 73129>>, <<92768, 92777>>, <<92864, 92873>>, <<93008, 93017>>,
      <<120782, 120831>>, <<123200, 123209>>, <<123632, 123641>>,
      <<125264, 125273>>, <<130032, 130041>> >>

\* The characters that str.isdigit() holds of and str.isdecimal() does not:
\* superscripts, circled digits and the like, which int() does not read.
digit_ranges ==
    << <<178, 179>>, <<185, 185>>, <<4969, 4977>>, <<6618, 6618>>,
      <<8304, 8304>>, <<8308, 8313>>, <<8320, 8329>>, <<9312, 9320>>,
      <<9332, 9340>>, <<9352, 9360>>, <<9450, 9450>>, <<9461, 9469>>,
      <<9471, 9471>>, <<10102, 10110>>, <<10112, 10120>>, <<10122, 10130>>,
      <<68160, 68163>>, <<69216, 69224>>, <<69714, 69722>>,
      <<127232, 127242>> >>

\* The characters outside ASCII that \w matches: those str.isalnum() holds of.
word_ranges ==
    << <<170, 170>>, <<178, 179>>, <<181, 181>>, <<185, 186>>, <<188, 190>>,
      <<192, 214>>, <<216, 246>>, <<248, 705>>, <<710, 721>>, <<736, 740>>,
      <<748, 748>>, <<750, 750>>, <<880, 884>>, <<886, 887>>, <<890, 893>>,
      <<895, 895>>, <<902, 902>>, <<904, 906>>, <<908, 908>>, <<910, 929>>,
      <<931, 1013>>, <<1015, 1153>>, <<1162, 1327>>, <<1329, 1366>>,
      <<1369, 1369>>, <<1376, 1416>>, <<1488, 1514>>, <<1519, 1522>>,
      <<1568, 1610>>, <<1632, 1641>>, <<1646, 1647>>, <<1649, 1747>>,
      <<1749, 1749>>, <<1765, 1766>>, <<1774, 1788>>, <<1791, 1791>>,
      <<1808, 1808>>, <<1810, 1839>>, <<1869, 1957>>, <<1969, 1969>>,
      <<1984, 2026>>, <<2036, 2037>>, <<2042, 2042>>, <<2048, 2069>>,
      <<2074, 2074>>, <<2084, 2084>>, <<2088, 2088>>, <<2112, 2136>>,
      <<2144, 2154>>, <<2160, 2183>>, <<2185, 2190>>, <<2208, 2249>>,
      <<2308, 2361>>, <<2365, 2365>>, <<2384, 2384>>, <<2392, 2401>>,
      <<2406, 2415>>, <<2417, 2432>>, <<2437, 2444>>, <<2447, 2448>>,
      <<2451, 2472>>, <<2474, 2480>>, <<2482, 2482>>, <<2486, 2489>>,
      <<2493, 2493>>, <<2510, 2510>>, <<2524, 2525>>, <<2527, 2529>>,
      <<2534, 2545>>, <<2548, 2553>>, <<2556, 2556>>, <<2565, 2570>>,
      <<2575, 2576>>, <<2579, 2600>>, <<2602, 2608>>, <<2610, 2611>>,
      <<2613, 2614>>, <<2616, 2617>>, <<2649, 2652>>, <<2654, 2654>>,
      <<2662, 2671>>, <<2674, 2676>>, <<2693, 2701>>, <<2703, 2705>>,
      <<2707, 2728>>, <<2730, 2736>>, <<2738, 2739>>, <<2741, 2745>>,
      <<2749, 2749>>, <<2768, 2768>>, <<2784, 2785>>, <<2790, 2799>>,
      <<2809, 2809>>, <<2821, 2828>>, <<2831, 2832>>, <<2835, 2856>>,
      <<2858, 2864>>, <<2866, 2867>>, <<2869, 2873>>, <<2877, 2877>>,
      <<2908, 2909>>, <<2911, 2913>>, <<2918, 2927>>, <<2929, 2935>>,
      <<2947, 2947>>, <<2949, 2954>>, <<2958, 2960>>, <<2962, 2965>>,
      <<2969, 2970>>, <<2972, 2972>>, <<2974, 2975>>, <<2979, 2980>>,
      <<2984, 2986>>, <<2990, 3001>>, <<3024, 3024>>, <<3046, 3058>>,
      <<3077, 3084>>, <<3086, 3088>>, <<3090, 3112>>, <<3114, 3129>>,
      <<3133, 3133>>, <<3160, 3162>>, <<3165, 3165>>, <<3168, 3169>>,
      <<3174, 3183>>, <<3192, 3198>>, <<3200, 3200>>, <<3205, 3212>>,
      <<3214, 3216>>, <<3218, 3240>>, <<3242, 3251>>, <<3253, 3257>>,
      <<3261, 3261>>, <<3293, 3294>>, <<3296, 3297>>, <<3302, 3311>>,
      <<3313, 3314>>, <<3332, 3340>>, <<3342, 3344>>, <<3346, 3386>>,
      <<3389, 3389>>, <<3406, 3406>>, <<3412, 3414>>, <<3416, 3425>>,
      <<3430, 3448>>, <<3450, 3455>>, <<3461, 3478>>, <<3482, 3505>>,
      <<3507, 3515>>, <<3517, 3517>>, <<3520, 3526>>, <<3558, 3567>>,
      <<3585, 3632>>, <<3634, 3635>>, <<3648, 3654>>, <<3664, 3673>>,
      <<3713, 3714>>, <<3716, 3716>>, <<3718, 3722>>, <<3724, 3747>>,
      <<3749, 3749>>, <<3751, 3760>>, <<3762, 3763>>, <<3773, 3773>>,
      <<3776, 3780>>, <<3782, 3782>>, <<3792, 3801>>, <<3804, 3807>>,
      <<3840, 3840>>, <<3872, 3891>>, <<3904, 3911>>, <<3913, 3948>>,
      <<3976, 3980>>, <<4096, 4138>>, <<4159, 4169>>, <<4176, 4181>>,
      <<4186, 4189>>, <<4193, 4193>>, <<4197, 4198>>, <<4206, 4208>>,
      <<4213, 4225>>, <<4238, 4238>>, <<4240, 4249>>, <<4256, 4293>>,
      <<4295, 4295>>, <<4301, 4301>>, <<4304, 4346>>, <<4348, 4680>>,
      <<4682, 4685>>, <<4688, 4694>>, <<4696, 4696>>, <<4698, 4701>>,
      <<4704, 4744>>, <<4746, 4749>>, <<4752, 4784>>, <<4786, 4789>>,
      <<4792, 4798>>, <<4800, 4800>>, <<4802, 4805>>, <<4808, 4822>>,
      <<4824, 4880>>, <<4882, 4885>>, <<4888, 4954>>, <<4969, 4988>>,
      <<4992, 5007>>, <<5024, 5109>>, <<5112, 5117>>, <<5121, 5740>>,
      <<5743, 5759>>, <<5761, 5786>>, <<5792, 5866>>, <<5870, 5880>>,
      <<5888, 5905>>, <<5919, 5937>>, <<5952, 5969>>, <<5984, 5996>>,
      <<5998, 6000>>, <<6016, 6067>>, <<6103, 6103>>, <<6108, 6108>>,
      <<6112, 6121>>, <<6128, 6137>>, <<6160, 6169>>, <<6176, 6264>>,
      <<6272, 6276>>, <<6279, 6312>>, <<6314, 6314>>, <<6320, 6389>>,
      <<6400, 6430>>, <<6470, 6509>>, <<6512, 6516>>, <<6528, 6571>>,
      <<6576, 6601>>, <<6608, 6618>>, <<6656, 6678>>, <<6688, 6740>>,
      <<6784, 6793>>, <<6800, 6809>>, <<6823, 6823>>, <<6917, 6963>>,
      <<6981, 6988>>, <<6992, 7001>>, <<7043, 7072>>, <<7086, 7141>>,
      <<7168, 7203>>, <<7232, 7241>>, <<7245, 7293>>, <<7296, 7304>>,
      <<7312, 7354>>, <<7357, 7359>>, <<7401, 7404>>, <<7406, 7411>>,
      <<7413, 7414>>, <<7418, 7418>>, <<7424, 7615>>, <<7680, 7957>>,
      <<7960, 7965>>, <<7968, 8005>>, <<8008, 8013>>, <<8016, 8023>>,
      <<8025, 8025>>, <<8027, 8027>>, <<8029, 8029>>, <<8031, 8061>>,
      <<8064, 8116>>, <<8118, 8124>>, <<8126, 8126>>, <<8130, 8132>>,
      <<8134, 8140>>, <<8144, 8147>>, <<8150, 8155>>, <<8160, 8172>>,
      <<8178, 8180>>, <<8182, 8188>>, <<8304, 8305>>, <<8308, 8313>>,
      <<8319, 8329>>, <<8336, 8348>>, <<8450, 8450>>, <<8455, 8455>>,
      <<8458, 8467>>, <<8469, 8469>>, <<8473, 8477>>, <<8484, 8484>>,
      <<8486, 8486>>, <<8488, 8488>>, <<8490, 8493>>, <<8495, 8505>>,
      <<8508, 8511>>, <<8517, 8521>>, <<8526, 8526>>, <<8528, 8585>>,
      <<9312, 9371>>, <<9450, 9471>>, <<10102, 10131>>, <<11264, 11492>>,
      <<11499, 11502>>, <<11506, 11507>>, <<11517, 11517>>, <<11520, 11557>>,
      <<11559, 11559>>, <<11565, 11565>>, <<11568, 11623>>, <<11631, 11631>>,
      <<11648, 11670>>, <<11680, 11686>>, <<11688, 11694>>, <<11696, 11702>>,
      <<11704, 11710>>, <<11712, 11718>>, <<11720, 11726>>, <<11728, 11734>>,
      <<11736, 11742>>, <<11823, 11823>>, <<12293, 12295>>, <<12321, 12329>>,
      <<12337, 12341>>, <<12344, 12348>>, <<12353, 12438>>, <<12445, 12447>>,
      <<12449, 12538>>, <<12540, 12543>>, <<12549, 12591>>, <<12593, 12686>>,
      <<12690, 12693>>, <<12704, 12735>>, <<12784, 12799>>, <<12832, 12841>>,
      <<12872, 12879>>, <<12881, 12895>>, <<12928, 12937>>, <<12977, 12991>>,
      <<13312, 19903>>, <<19968, 42124>>, <<42192, 42237>>, <<42240, 42508>>,
      <<42512, 42539>>, <<42560, 42606>>, <<42623, 42653>>, <<42656, 42735>>,
      <<42775, 42783>>, <<42786, 42888>>, <<42891, 42954>>, <<42960, 42961>>,
      <<42963, 42963>>, <<42965, 42969>>, <<42994, 43009>>, <<43011, 43013>>,
      <<43015, 43018>>, <<43020, 43042>>, <<43056, 43061>>, <<43072, 43123>>,
      <<43138, 43187>>, <<43216, 43225>>, <<43250, 43255>>, <<43259, 43259>>,
      <<43261, 43262>>, <<43264, 43301>>, <<43312, 43334>>, <<43360, 43388>>,
      <<43396, 43442>>, <<43471, 43481>>, <<43488, 43492>>, <<43494, 43518>>,
      <<43520, 43560>>, <<43584, 43586>>, <<43588, 43595>>, <<43600, 43609>>,
      <<43616, 43638>>, <<43642, 43642>>, <<43646, 43695>>, <<43697, 43697>>,
      <<43701, 43702>>, <<43705, 43709>>, <<43712, 43712>>, <<43714, 43714>>,
      <<43739, 43741>>, <<43744, 43754>>, <<43762, 43764>>, <<43777, 43782>>,
      <<43785, 43790>>, <<43793, 43798>>, <<43808, 43814>>, <<43816, 43822>>,
      <<43824, 43866>>, <<43868, 43881>>, <<43888, 44002>>, <<44016, 44025>>,
      <<44032, 55203>>, <<55216, 55238>>, <<55243, 55291>>, <<63744, 64109>>,
      <<64112, 64217>>, <<64256, 64262>>, <<64275, 64279>>, <<64285, 64285>>,
      <<64287, 64296>>, <<64298, 64310>>, <<64312, 64316>>, <<64318, 64318>>,
      <<64320, 64321>>, <<64323, 64324>>, <<64326, 64433>>, <<64467, 64829>>,
      <<64848, 64911>>, <<64914, 64967>>, <<65008, 65019>>, <<65136, 65140>>,
      <<65142, 65276>>, <<65296, 65305>>, <<65313, 65338>>, <<65345, 65370>>,
      <<65382, 65470>>, <<65474, 65479>>, <<65482, 65487>>, <<65490, 65495>>,
      <<65498, 65500>>, <<65536, 65547>>, <<65549, 65574>>, <<65576, 65594>>,
      <<65596, 65597>>, <<65599, 65613>>, <<65616, 65629>>, <<65664, 65786>>,
      <<65799, 65843>>, <<65856, 65912>>, <<65930, 65931>>, <<66176, 66204>>,
      <<66208, 66256>>, <<66273, 66299>>, <<66304, 66339>>, <<66349, 66378>>,
      <<66384, 66421>>, <<66432, 66461>>, <<66464, 66499>>, <<66504, 66511>>,
      <<66513, 66517>>, <<66560, 66717>>, <<66720, 66729>>, <<66736, 66771>>,
      <<66776, 66811>>, <<66816, 66855>>, <<66864, 66915>>, <<66928, 66938>>,
      <<66940, 66954>>, <<66956, 66962>>, <<66964, 66965>>, <<66967, 66977>>,
      <<66979, 66993>>, <<66995, 67001>>, <<67003, 67004>>, <<67072, 67382>>,
      <<67392, 67413>>, <<67424, 67431>>, <<67456, 67461>>, <<67463, 67504>>,
      <<67506, 67514>>, <<67584, 67589>>, <<67592, 67592>>, <<67594, 67637>>,
      <<67639, 67640>>, <<67644, 67644>>, <<67647, 67669>>, <<67672, 67702>>,
      <<67705, 67742>>, <<67751, 67759>>, <<67808, 67826>>, <<67828, 67829>>,
      <<67835, 67867>>, <<67872, 67897>>, <<67968, 68023>>, <<68028, 68047>>,
      <<68050, 68096>>, <<68112, 68115>>, <<68117, 68119>>, <<68121, 68149>>,
      <<68160, 68168>>, <<68192, 68222>>, <<68224, 68255>>, <<68288, 68295>>,
      <<68297, 68324>>, <<68331, 68335>>, <<68352, 68405>>, <<68416, 68437>>,
      <<68440, 68466>>, <<68472, 68497>>, <<68521, 68527>>, <<68608, 68680>>,
      <<68736, 68786>>, <<68800, 68850>>, <<68858, 68899>>, <<68912, 68921>>,
      <<69216, 69246>>, <<69248, 69289>>, <<69296, 69297>>, <<69376, 69415>>,
      <<69424, 69445>>, <<69457, 69460>>, <<69488, 69505>>, <<69552, 69579>>,
      <<69600, 69622>>, <<69635, 69687>>, <<69714, 69743>>, <<69745, 69746>>,
      <<69749, 69749>>, <<69763, 69807>>, <<69840, 69864>>, <<69872, 69881>>,
      <<69891, 69926>>, <<69942, 69951>>, <<69956, 69956>>, <<69959, 69959>>,
      <<69968, 70002>>, <<70006, 70006>>, <<70019, 70066>>, <<70081, 70084>>,
      <<70096, 70106>>, <<70108, 70108>>, <<70113, 70132>>, <<70144, 70161>>,
      <<70163, 70187>>, <<70272, 70278>>, <<70280, 70280>>, <<70282, 70285>>,
      <<70287, 70301>>, <<70303, 70312>>, <<70320, 70366>>, <<70384, 70393>>,
      <<70405, 70412>>, <<70415, 70416>>, <<70419, 70440>>, <<70442, 70448>>,
      <<70450, 70451>>, <<70453, 70457>>, <<70461, 70461>>, <<70480, 70480>>,
      <<70493, 70497>>, <<70656, 70708>>, <<70727, 70730>>, <<70736, 70745>>,
      <<70751, 70753>>, <<70784, 70831>>, <<70852, 70853>>, <<70855, 70855>>,
      <<70864, 70873>>, <<71040, 71086>>, <<71128, 71131>>, <<71168, 71215>>,
      <<71236, 71236>>, <<71248, 71257>>, <<71296, 71338>>, <<71352, 71352>>,
      <<71360, 71369>>, <<71424, 71450>>, <<71472, 71483>>, <<71488, 71494>>,
      <<71680, 71723>>, <<71840, 71922>>, <<71935, 71942>>, <<71945, 71945>>,
      <<71948, 71955>>, <<71957, 71958>>, <<71960, 71983>>, <<71999, 71999>>,
      <<72001, 72001>>, <<72016, 72025>>, <<72096, 72103>>, <<72106, 72144>>,
      <<72161, 72161>>, <<72163, 72163>>, <<72192, 72192>>, <<72203, 72242>>,
      <<72250, 72250>>, <<72272, 72272>>, <<72284, 72329>>, <<72349, 72349>>,
      <<72368, 72440>>, <<72704, 72712>>, <<72714, 72750>>, <<72768, 72768>>,
      <<72784, 72812>>, <<72818, 72847>>, <<72960, 72966>>, <<72968, 72969>>,
      <<72971, 73008>>, <<73030, 73030>>, <<73040, 73049>>, <<73056, 73061>>,
      <<73063, 73064>>, <<73066, 73097>>, <<73112, 73112>>, <<73120, 73129>>,
      <<73440, 73458>>, <<73648, 73648>>, <<73664, 73684>>, <<73728, 74649>>,
      <<74752, 74862>>, <<74880, 75075>>, <<77712, 77808>>, <<77824, 78894>>,
      <<82944, 83526>>, <<92160, 92728>>, <<92736, 92766>>, <<92768, 92777>>,
      <<92784, 92862>>, <<92864, 92873>>, <<92880, 92909>>, <<92928, 92975>>,
      <<92992, 92995>>, <<93008, 93017>>, <<93019, 93025>>, <<93027, 93047>>,
      <<93053, 93071>>, <<93760, 93846>>, <<93952, 94026>>, <<94032, 94032>>,
      <<94099, 94111>>, <<94176, 94177>>, <<94179, 94179>>,
      <<94208, 100343>>, <<100352, 101589>>, <<101632, 101640>>,
      <<110576, 110579>>, <<110581, 110587>>, <<110589, 110590>>,
      <<110592, 110882>>, <<110928, 110930>>, <<110948, 110951>>,
      <<110960, 111355>>, <<113664, 113770>>, <<113776, 113788>>,
      <<113792, 113800>>, <<113808, 113817>>, <<119520, 119539>>,
      <<119648, 119672>>, <<119808, 119892>>, <<119894, 119964>>,
      <<119966, 119967>>, <<119970, 119970>>, <<119973, 119974>>,
      <<119977, 119980>>, <<119982, 119993>>, <<119995, 119995>>,
      <<119997, 120003>>, <<120005, 120069>>, <<120071, 120074>>,
      <<120077, 120084>>, <<120086, 120092>>, <<120094, 120121>>,
      <<120123, 120126>>, <<120128, 120132>>, <<120134, 120134>>,
      <<120138, 120144>>, <<120146, 120485>>, <<120488, 120512>>,
      <<120514, 120538>>, <<120540, 120570>>, <<120572, 120596>>,
      <<120598, 120628>>, <<120630, 120654>>, <<120656, 120686>>,
      <<120688, 120712>>, <<120714, 120744>>, <<120746, 120770>>,
      <<120772, 120779>>, <<120782, 120831>>, <<122624, 122654>>,
      <<123136, 123180>>, <<123191, 123197>>, <<123200, 123209>>,
      <<123214, 123214>>, <<123536, 123565>>, <<123584, 123627>>,
      <<123632, 123641>>, <<124896, 124902>>, <<124904, 124907>>,
      <<124909, 124910>>, <<124912, 124926>>, <<124928, 125124>>,
      <<125127, 125135>>, <<125184, 125251>>, <<125259, 125259>>,
      <<125264, 125273>>, <<126065, 126123>>, <<126125, 126127>>,
      <<126129, 126132>>, <<126209, 126253>>, <<126255, 126269>>,
      <<126464, 126467>>, <<126469, 126495>>, <<126497, 126498>>,
      <<126500, 126500>>, <<126503, 126503>>, <<126505, 126514>>,
      <<126516, 126519>>, <<126521, 126521>>, <<126523, 126523>>,
      <<126530, 126530>>, <<126535, 126535>>, <<126537, 126537>>,
      <<126539, 126539>>, <<126541, 126543>>, <<126545, 126546>>,
      <<126548, 126548>>, <<126551, 126551>>, <<126553, 126553>>,
      <<126555, 126555>>, <<126557, 126557>>, <<126559, 126559>>,
      <<126561, 126562>>, <<126564, 126564>>, <<126567, 126570>>,
      <<126572, 126578>>, <<126580, 126583>>, <<126585, 126588>>,
      <<126590, 126590>>, <<126592, 126601>>, <<126603, 126619>>,
      <<126625, 126627>>, <<126629, 126633>>, <<126635, 126651>>,
      <<127232, 127244>>, <<130032, 130041>>, <<131072, 173791>>,
      <<173824, 177976>>, <<177984, 178205>>, <<178208, 183969>>,
      <<183984, 191456>>, <<194560, 195101>>, <<196608, 201546>> >>

\* The characters outside ASCII that str.isprintable() does not hold of, which
\* repr() writes as escapes.
nonprintable_ranges ==
    << <<128, 160>>, <<173, 173>>, <<888, 889>>, <<896, 899>>, <<907, 907>>,
      <<909, 909>>, <<930, 930>>, <<1328, 1328>>, <<1367, 1368>>,
      <<1419, 1420>>, <<1424, 1424>>, <<1480, 1487>>, <<1515, 1518>>,
      <<1525, 1541>>, <<1564, 1564>>, <<1757, 1757>>, <<1806, 1807>>,
      <<1867, 1868>>, <<1970, 1983>>, <<2043, 2044>>, <<2094, 2095>>,
      <<2111, 2111>>, <<2140, 2141>>, <<2143, 2143>>, <<2155, 2159>>,
      <<2191, 2199>>, <<2274, 2274>>, <<2436, 2436>>, <<2445, 2446>>,
      <<2449, 2450>>, <<2473, 2473>>, <<2481, 2481>>, <<2483, 2485>>,
      <<2490, 2491>>, <<2501, 2502>>, <<2505, 2506>>, <<2511, 2518>>,
      <<2520, 2523>>, <<2526, 2526>>, <<2532, 2533>>, <<2559, 2560>>,
      <<2564, 2564>>, <<2571, 2574>>, <<2577, 2578>>, <<2601, 2601>>,
      <<2609, 2609>>, <<2612, 2612>>, <<2615, 2615>>, <<2618, 2619>>,
      <<2621, 2621>>, <<2627, 2630>>, <<2633, 2634>>, <<2638, 2640>>,
      <<2642, 2648>>, <<2653, 2653>>, <<2655, 2661>>, <<2679, 2688>>,
      <<2692, 2692>>, <<2702, 2702>>, <<2706, 2706>>, <<2729, 2729>>,
      <<2737, 2737>>, <<2740, 2740>>, <<2746, 2747>>, <<2758, 2758>>,
      <<2762, 2762>>, <<2766, 2767>>, <<2769, 2783>>, <<2788, 2789>>,
      <<2802, 2808>>, <<2816, 2816>>, <<2820, 2820>>, <<2829, 2830>>,
      <<2833, 2834>>, <<2857, 2857>>, <<2865, 2865>>, <<2868, 2868>>,
      <<2874, 2875>>, <<2885, 2886>>, <<2889, 2890>>, <<2894, 2900>>,
      <<2904, 2907>>, <<2910, 2910>>, <<2916, 2917>>, <<2936, 2945>>,
      <<2948, 2948>>, <<2955, 2957>>, <<2961, 2961>>, <<2966, 2968>>,
      <<2971, 2971>>, <<2973, 2973>>, <<2976, 2978>>, <<2981, 2983>>,
      <<2987, 2989>>, <<3002, 3005>>, <<3011, 3013>>, <<3017, 3017>>,
      <<3022, 3023>>, <<3025, 3030>>, <<3032, 3045>>, <<3067, 3071>>,
      <<3085, 3085>>, <<3089, 3089>>, <<3113, 3113>>, <<3130, 3131>>,
      <<3141, 3141>>, <<3145, 3145>>, <<3150, 3156>>, <<3159, 3159>>,
      <<3163, 3164>>, <<3166, 3167>>, <<3172, 3173>>, <<3184, 3190>>,
      <<3213, 3213>>, <<3217, 3217>>, <<3241, 3241>>, <<3252, 3252>>,
      <<3258, 3259>>, <<3269, 3269>>, <<3273, 3273>>, <<3278, 3284>>,
      <<3287, 3292>>, <<3295, 3295>>, <<3300, 3301>>, <<3312, 3312>>,
      <<3315, 3327>>, <<3341, 3341>>, <<3345, 3345>>, <<3397, 3397>>,
      <<3401, 3401>>, <<3408, 3411>>, <<3428, 3429>>, <<3456, 3456>>,
      <<3460, 3460>>, <<3479, 3481>>, <<3506, 3506>>, <<3516, 3516>>,
      <<3518, 3519>>, <<3527, 3529>>, <<3531, 3534>>, <<3541, 3541>>,
      <<3543, 3543>>, <<3552, 3557>>, <<3568, 3569>>, <<3573, 3584>>,
      <<3643, 3646>>, <<3676, 3712>>, <<3715, 3715>>, <<3717, 3717>>,
      <<3723, 3723>>, <<3748, 3748>>, <<3750, 3750>>, <<3774, 3775>>,
      <<3781, 3781>>, <<3783, 3783>>, <<3790, 3791>>, <<3802, 3803>>,
      <<3808, 3839>>, <<3912, 3912>>, <<3949, 3952>>, <<3992, 3992>>,
      <<4029, 4029>>, <<4045, 4045>>, <<4059, 4095>>, <<4294, 4294>>,
      <<4296, 4300>>, <<4302, 4303>>, <<4681, 4681>>, <<4686, 4687>>,
      <<4695, 4695>>, <<4697, 4697>>, <<4702, 4703>>, <<4745, 4745>>,
      <<4750, 4751>>, <<4785, 4785>>, <<4790, 4791>>, <<4799, 4799>>,
      <<4801, 4801>>, <<4806, 4807>>, <<4823, 4823>>, <<4881, 4881>>,
      <<4886, 4887>>, <<4955, 4956>>, <<4989, 4991>>, <<5018, 5023>>,
      <<5110, 5111>>, <<5118, 5119>>, <<5760, 5760>>, <<5789, 5791>>,
      <<5881, 5887>>, <<5910, 5918>>, <<5943, 5951>>, <<5972, 5983>>,
      <<5997, 5997>>, <<6001, 6001>>, <<6004, 6015>>, <<6110, 6111>>,
      <<6122, 6127>>, <<6138, 6143>>, <<6158, 6158>>, <<6170, 6175>>,
      <<6265, 6271>>, <<6315, 6319>>, <<6390, 6399>>, <<6431, 6431>>,
      <<6444, 6447>>, <<6460, 6463>>, <<6465, 6467>>, <<6510, 6511>>,
      <<6517, 6527>>, <<6572, 6575>>, <<6602, 6607>>, <<6619, 6621>>,
      <<6684, 6685>>, <<6751, 6751>>, <<6781, 6782>>, <<6794, 6799>>,
      <<6810, 6815>>, <<6830, 6831>>, <<6863, 6911>>, <<6989, 6991>>,
      <<7039, 7039>>, <<7156, 7163>>, <<7224, 7226>>, <<7242, 7244>>,
      <<7305, 7311>>, <<7355, 7356>>, <<7368, 7375>>, <<7419, 7423>>,
      <<7958, 7959>>, <<7966, 7967>>, <<8006, 8007>>, <<8014, 8015>>,
      <<8024, 8024>>, <<8026, 8026>>, <<8028, 8028>>, <<8030, 8030>>,
      <<8062, 8063>>, <<8117, 8117>>, <<8133, 8133>>, <<8148, 8149>>,
      <<8156, 8156>>, <<8176, 8177>>, <<8181, 8181>>, <<8191, 8207>>,
      <<8232, 8239>>, <<8287, 8303>>, <<8306, 8307>>, <<8335, 8335>>,
      <<8349, 8351>>, <<8385, 8399>>, <<8433, 8447>>, <<8588, 8591>>,
      <<9255, 9279>>, <<9291, 9311>>, <<11124, 11125>>, <<11158, 11158>>,
      <<11508, 11512>>, <<11558, 11558>>, <<11560, 11564>>, <<11566, 11567>>,
      <<11624, 11630>>, <<11633, 11646>>, <<11671, 11679>>, <<11687, 11687>>,
      <<11695, 11695>>, <<11703, 11703>>, <<11711, 11711>>, <<11719, 11719>>,
      <<11727, 11727>>, <<11735, 11735>>, <<11743, 11743>>, <<11870, 11903>>,
      <<11930, 11930>>, <<12020, 12031>>, <<12246, 12271>>, <<12284, 12288>>,
      <<12352, 12352>>, <<12439, 12440>>, <<12544, 12548>>, <<12592, 12592>>,
      <<12687, 12687>>, <<12772, 12783>>, <<12831, 12831>>, <<42125, 42127>>,
      <<42183, 42191>>, <<42540, 42559>>, <<42744, 42751>>, <<42955, 42959>>,
      <<42962, 42962>>, <<42964, 42964>>, <<42970, 42993>>, <<43053, 43055>>,
      <<43066, 43071>>, <<43128, 43135>>, <<43206, 43213>>, <<43226, 43231>>,
      <<43348, 43358>>, <<43389, 43391>>, <<43470, 43470>>, <<43482, 43485>>,
      <<43519, 43519>>, <<43575, 43583>>, <<43598, 43599>>, <<43610, 43611>>,
      <<43715, 43738>>, <<43767, 43776>>, <<43783, 43784>>, <<43791, 43792>>,
      <<43799, 43807>>, <<43815, 43815>>, <<43823, 43823>>, <<43884, 43887>>,
      <<44014, 44015>>, <<44026, 44031>>, <<55204, 55215>>, <<55239, 55242>>,
      <<55292, 63743>>, <<64110, 64111>>, <<64218, 64255>>, <<64263, 64274>>,
      <<64280, 64284>>, <<64311, 64311>>, <<64317, 64317>>, <<64319, 64319>>,
      <<64322, 64322>>, <<64325, 64325>>, <<64451, 64466>>, <<64912, 64913>>,
      <<64968, 64974>>, <<64976, 65007>>, <<65050, 65055>>, <<65107, 65107>>,
      <<65127, 65127>>, <<65132, 65135>>, <<65141, 65141>>, <<65277, 65280>>,
      <<65471, 65473>>, <<65480, 65481>>, <<65488, 65489>>, <<65496, 65497>>,
      <<65501, 65503>>, <<65511, 65511>>, <<65519, 65531>>, <<65534, 65535>>,
      <<65548, 65548>>, <<65575, 65575>>, <<65595, 65595>>, <<65598, 65598>>,
      <<65614, 65615>>, <<65630, 65663>>, <<65787, 65791>>, <<65795, 65798>>,
      <<65844, 65846>>, <<65935, 65935>>, <<65949, 65951>>, <<65953, 65999>>,
      <<66046, 66175>>, <<66205, 66207>>, <<66257, 66271>>, <<66300, 66303>>,
      <<66340, 66348>>, <<66379, 66383>>, <<66427, 66431>>, <<66462, 66462>>,
      <<66500, 66503>>, <<66518, 66559>>, <<66718, 66719>>, <<66730, 66735>>,
      <<66772, 66775>>, <<66812, 66815>>, <<66856, 66863>>, <<66916, 66926>>,
      <<66939, 66939>>, <<66955, 66955>>, <<66963, 66963>>, <<66966, 66966>>,
      <<66978, 66978>>, <<66994, 66994>>, <<67002, 67002>>, <<67005, 67071>>,
      <<67383, 67391>>, <<67414, 67423>>, <<67432, 67455>>, <<67462, 67462>>,
      <<67505, 67505>>, <<67515, 67583>>, <<67590, 67591>>, <<67593, 67593>>,
      <<67638, 67638>>, <<67641, 67643>>, <<67645, 67646>>, <<67670, 67670>>,
      <<67743, 67750>>, <<67760, 67807>>, <<67827, 67827>>, <<67830, 67834>>,
      <<67868, 67870>>, <<67898, 67902>>, <<67904, 67967>>, <<68024, 68027>>,
      <<68048, 68049>>, <<68100, 68100>>, <<68103, 68107>>, <<68116, 68116>>,
      <<68120, 68120>>, <<68150, 68151>>, <<68155, 68158>>, <<68169, 68175>>,
      <<68185, 68191>>, <<68256, 68287>>, <<68327, 68330>>, <<68343, 68351>>,
      <<68406, 68408>>, <<68438, 68439>>, <<68467, 68471>>, <<68498, 68504>>,
      <<68509, 68520>>, <<68528, 68607>>, <<68681, 68735>>, <<68787, 68799>>,
      <<68851, 68857>>, <<68904, 68911>>, <<68922, 69215>>, <<69247, 69247>>,
      <<69290, 69290>>, <<69294, 69295>>, <<69298, 69375>>, <<69416, 69423>>,
      <<69466, 69487>>, <<69514, 69551>>, <<69580, 69599>>, <<69623, 69631>>,
      <<69710, 69713>>, <<69750, 69758>>, <<69821, 69821>>, <<69827, 69839>>,
      <<69865, 69871>>, <<69882, 69887>>, <<69941, 69941>>, <<69960, 69967>>,
      <<70007, 70015>>, <<70112, 70112>>, <<70133, 70143>>, <<70162, 70162>>,
      <<70207, 70271>>, <<70279, 70279>>, <<70281, 70281>>, <<70286, 70286>>,
      <<70302, 70302>>, <<70314, 70319>>, <<70379, 70383>>, <<70394, 70399>>,
      <<70404, 70404>>, <<70413, 70414>>, <<70417, 70418>>, <<70441, 70441>>,
      <<70449, 70449>>, <<70452, 70452>>, <<70458, 70458>>, <<70469, 70470>>,
      <<70473, 70474>>, <<70478, 70479>>, <<70481, 70486>>, <<70488, 70492>>,
      <<70500, 70501>>, <<70509, 70511>>, <<70517, 70655>>, <<70748, 70748>>,
      <<70754, 70783>>, <<70856, 70863>>, <<70874, 71039>>, <<71094, 71095>>,
      <<71134, 71167>>, <<71237, 71247>>, <<71258, 71263>>, <<71277, 71295>>,
      <<71354, 71359>>, <<71370, 71423>>, <<71451, 71452>>, <<71468, 71471>>,
      <<71495, 71679>>, <<71740, 71839>>, <<71923, 71934>>, <<71943, 71944>>,
      <<71946, 71947>>, <<71956, 71956>>, <<71959, 71959>>, <<71990, 71990>>,
      <<71993, 71994>>, <<72007, 72015>>, <<72026, 72095>>, <<72104, 72105>>,
      <<72152, 72153>>, <<72165, 72191>>, <<72264, 72271>>, <<72355, 72367>>,
      <<72441, 72703>>, <<72713, 72713>>, <<72759, 72759>>, <<72774, 72783>>,
      <<72813, 72815>>, <<72848, 72849>>, <<72872, 72872>>, <<72887, 72959>>,
      <<72967, 72967>>, <<72970, 72970>>, <<73015, 73017>>, <<73019, 73019>>,
      <<73022, 73022>>, <<73032, 73039>>, <<73050, 73055>>, <<73062, 73062>>,
      <<73065, 73065>>, <<73103, 73103>>, <<73106, 73106>>, <<73113, 73119>>,
      <<73130, 73439>>, <<73465, 73647>>, <<73649, 73663>>, <<73714, 73726>>,
      <<74650, 74751>>, <<74863, 74863>>, <<74869, 74879>>, <<75076, 77711>>,
      <<77811, 77823>>, <<78895, 82943>>, <<83527, 92159>>, <<92729, 92735>>,
      <<92767, 92767>>, <<92778, 92781>>, <<92863, 92863>>, <<92874, 92879>>,
      <<92910, 92911>>, <<92918, 92927>>, <<92998, 93007>>, <<93018, 93018>>,
      <<93026, 93026>>, <<93048, 93052>>, <<93072, 93759>>, <<93851, 93951>>,
      <<94027, 94030>>, <<94088, 94094>>, <<94112, 94175>>, <<94181, 94191>>,
      <<94194, 94207>>, <<100344, 100351>>, <<101590, 101631>>,
      <<101641, 110575>>, <<110580, 110580>>, <<110588, 110588>>,
      <<110591, 110591>>, <<110883, 110927>>, <<110931, 110947>>,
      <<110952, 110959>>, <<111356, 113663>>, <<113771, 113775>>,
      <<113789, 113791>>, <<113801, 113807>>, <<113818, 113819>>,
      <<113824, 118527>>, <<118574, 118575>>, <<118599, 118607>>,
      <<118724, 118783>>, <<119030, 119039>>, <<119079, 119080>>,
      <<119155, 119162>>, <<119275, 119295>>, <<119366, 119519>>,
      <<119540, 119551>>, <<119639, 119647>>, <<119673, 119807>>,
      <<119893, 119893>>, <<119965, 119965>>, <<119968, 119969>>,
      <<119971, 119972>>, <<119975, 119976>>, <<119981, 119981>>,
      <<119994, 119994>>, <<119996, 119996>>, <<120004, 120004>>,
      <<120070, 120070>>, <<120075, 120076>>, <<120085, 120085>>,
      <<120093, 120093>>, <<120122, 120122>>, <<120127, 120127>>,
      <<120133, 120133>>, <<120135, 120137>>, <<120145, 120145>>,
      <<120486, 120487>>, <<120780, 120781>>, <<121484, 121498>>,
      <<121504, 121504>>, <<121520, 122623>>, <<122655, 122879>>,
      <<122887, 122887>>, <<122905, 122906>>, <<122914, 122914>>,
      <<122917, 122917>>, <<122923, 123135>>, <<123181, 123183>>,
      <<123198, 123199>>, <<123210, 123213>>, <<123216, 123535>>,
      <<123567, 123583>>, <<123642, 123646>>, <<123648, 124895>>,
      <<124903, 124903>>, <<124908, 124908>>, <<124911, 124911>>,
      <<124927, 124927>>, <<125125, 125126>>, <<125143, 125183>>,
      <<125260, 125263>>, <<125274, 125277>>, <<125280, 126064>>,
      <<126133, 126208>>, <<126270, 126463>>, <<126468, 126468>>,
      <<126496, 126496>>, <<126499, 126499>>, <<126501, 126502>>,
      <<126504, 126504>>, <<126515, 126515>>, <<126520, 126520>>,
      <<126522, 126522>>, <<126524, 126529>>, <<126531, 126534>>,
      <<126536, 126536>>, <<126538, 126538>>, <<126540, 126540>>,
      <<126544, 126544>>, <<126547, 126547>>, <<126549, 126550>>,
      <<126552, 126552>>, <<126554, 126554>>, <<126556, 126556>>,
      <<126558, 126558>>, <<126560, 126560>>, <<126563, 126563>>,
      <<126565, 126566>>, <<126571, 126571>>, <<126579, 126579>>,
      <<126584, 126584>>, <<126589, 126589>>, <<126591, 126591>>,
      <<126602, 126602>>, <<126620, 126624>>, <<126628, 126628>>,
      <<126634, 126634>>, <<126652, 126703>>, <<126706, 126975>>,
      <<127020, 127023>>, <<127124, 127135>>, <<127151, 127152>>,
      <<127168, 127168>>, <<127184, 127184>>, <<127222, 127231>>,
      <<127406, 127461>>, <<127491, 127503>>, <<127548, 127551>>,
      <<127561, 127567>>, <<127570, 127583>>, <<127590, 127743>>,
      <<128728, 128732>>, <<128749, 128751>>, <<128765, 128767>>,
      <<128884, 128895>>, <<128985, 128991>>, <<129004, 129007>>,
      <<129009, 129023>>, <<129036, 129039>>, <<129096, 129103>>,
      <<129114, 129119>>, <<129160, 129167>>, <<129198, 129199>>,
      <<129202, 129279>>, <<129620, 129631>>, <<129646, 129647>>,
      <<129653, 129655>>, <<129661, 129663>>, <<129671, 129679>>,
      <<129709, 129711>>, <<129723, 129727>>, <<129734, 129743>>,
      <<129754, 129759>>, <<129768, 129775>>, <<129783, 129791>>,
      <<129939, 129939>>, <<129995, 130031>>, <<130042, 131071>>,
      <<173792, 173823>>, <<177977, 177983>>, <<178206, 178207>>,
      <<183970, 183983>>, <<191457, 194559>>, <<195102, 196607>>,
      <<201547, 917759>>, <<918000, 1114111>> >>

\* c.isdecimal(), and whether \d matches c
IsDecimalChar(c) ==
    IF IsCodePoint(c) THEN InRanges(decimal_ranges, CodePoint(c))
    ELSE IsDigitChar(c)

\* The digit a decimal character stands for
DecimalOf(ranges, cp) ==
    (cp - ranges[CHOOSE i \in 1..Len(ranges) :
                    ranges[i][1] <= cp /\ cp <= ranges[i][2]][1]) % 10

DigitValue(c) ==
    IF IsCodePoint(c) THEN DecimalOf(decimal_ranges, CodePoint(c))
    ELSE (CHOOSE d \in 1..10 : Digits[d] = c) - 1

\* c.isdigit()
IsDigitTypeChar(c) ==
    \/ IsDecimalChar(c)
    \/ IsCodePoint(c) /\ InRanges(digit_ranges, CodePoint(c))

\* str.isdigit(): at least one character, and all of them digits.
IsDigit(s) == s # <<>> /\ \A i \in 1..Len(s) : IsDigitTypeChar(s[i])

ascii_lowercase ==
    <<"a", "b", "c", "d", "e", "f", "g", "h", "i", "j", "k", "l", "m",
      "n", "o", "p", "q", "r", "s", "t", "u", "v", "w", "x", "y", "z">>

ascii_uppercase ==
    <<"A", "B", "C", "D", "E", "F", "G", "H", "I", "J", "K", "L", "M",
      "N", "O", "P", "Q", "R", "S", "T", "U", "V", "W", "X", "Y", "Z">>

ascii_word ==
    {ascii_lowercase[k] : k \in 1..26} \cup {ascii_uppercase[k] : k \in 1..26}
        \cup {Digits[k] : k \in 1..10} \cup {"_"}

\* Whether \w matches c
IsWordChar(c) ==
    IF IsCodePoint(c) THEN InRanges(word_ranges, CodePoint(c))
    ELSE c \in ascii_word

\* c.isprintable(): of ASCII, the characters from the blank to "~", of
\* which the grave accent is written by its code point, 96.
IsPrintable(c) ==
    IF IsCodePoint(c)
        THEN \/ CodePoint(c) = 96
             \/ /\ CodePoint(c) >= 128
                /\ ~InRanges(nonprintable_ranges, CodePoint(c))
        ELSE c \notin {"\t", "\n", "\r", "\f"}

\* ------------------------------------------------ str.isdigit, split, int

\* The characters str.isspace() holds of, which str.split() splits on.
whitespace ==
    {" ", "\t", "\n", "\r", "\f", "U+000B", "U+001C", "U+001D", "U+001E",
     "U+001F", "U+0085", "U+00A0", "U+1680", "U+2000", "U+2001", "U+2002",
     "U+2003", "U+2004", "U+2005", "U+2006", "U+2007", "U+2008", "U+2009",
     "U+200A", "U+2028", "U+2029", "U+202F", "U+205F", "U+3000"}

\* Two sequences of runs, the second one from index mid + 1 on: a run that
\* ends at mid and one that starts after it are one run.
JoinedRuns(left, right, mid) ==
    IF /\ left # <<>> /\ right # <<>>
       /\ left[Len(left)][2] = mid /\ right[1][1] = mid + 1
        THEN SubSeq(left, 1, Len(left) - 1)
                \o << <<left[Len(left)][1], right[1][2]>> >> \o Tail(right)
        ELSE left \o right

RECURSIVE RunsBetween(_, _, _)
\* The maximal runs of characters that are no whitespace from index lo to
\* index hi of s: the first and the last index of each.
RunsBetween(s, lo, hi) ==
    IF lo > hi THEN <<>>
    ELSE IF lo = hi
        THEN IF s[lo] \in whitespace THEN <<>> ELSE << <<lo, lo>> >>
    ELSE JoinedRuns(RunsBetween(s, lo, (lo + hi) \div 2),
                    RunsBetween(s, (lo + hi) \div 2 + 1, hi),
                    (lo + hi) \div 2)

WordsOf(s, runs) == [k \in 1..Len(runs) |-> SubSeq(s, runs[k][1], runs[k][2])]

\* str.split() with no separator: the maximal runs of characters that are
\* no whitespace.
Split(s) == WordsOf(s, RunsBetween(s, 1, Len(s))) \o <<>>

\* The whitespace int() takes no notice of at the two ends of a numeral:
\* the four separators U+001C to U+001F are not of it.
int_whitespace == whitespace \ {"U+001C", "U+001D", "U+001E", "U+001F"}

\* s without the whitespace of int() at its two ends.
Strip(s) ==
    LET kept == {i \in 1..Len(s) : s[i] \notin int_whitespace} IN
    IF kept = {} THEN <<>>
    ELSE SubSeq(s, CHOOSE i \in kept : \A j \in kept : i <= j,
                   CHOOSE i \in kept : \A j \in kept : j <= i)

RECURSIVE Str(_)
\* str(n), "{}".format(n) for an integer n >= 0 of the model.
Str(n) ==
    IF n < 10 THEN <<Digits[n + 1]>>
    ELSE Append(Str(n \div 10), Digits[(n % 10) + 1])

\* A sequence of digits to some base without the zeros before its first
\* digit that is not 0, and <<0>> for zero.
BigStripped(A) ==
    LET nonzero == {i \in 1..Len(A) : A[i] # 0} IN
    IF nonzero = {} THEN <<0>>
    ELSE SubSeq(A, CHOOSE i \in nonzero : \A j \in nonzero : i <= j, Len(A))

\* A < B for two such sequences to one base
BigLess(A, B) ==
    \/ Len(A) < Len(B)
    \/ /\ Len(A) = Len(B)
       /\ \E i \in 1..Len(A) :
            A[i] < B[i] /\ \A j \in 1..(i - 1) : A[j] = B[j]

\* The digits a string of decimal characters writes, and the string of
\* ASCII digits that writes a sequence of digits.
DigitsOfString(s) == [i \in 1..Len(s) |-> DigitValue(s[i])] \o <<>>

StringOfDigits(D) == [i \in 1..Len(D) |-> Digits[D[i] + 1]] \o <<>>

\* A Python int of any size: its sign and its decimal digits.
Long(negative, digits) ==
    [negative |-> negative /\ BigStripped(digits) # <<0>>,
     digits |-> BigStripped(digits)]

\* The Python int of an integer of the model
LongOf(n) == Long(n < 0, DigitsOfString(Str(IF n < 0 THEN 0 - n ELSE n)))

\* a < b of two Python ints
LongLess(a, b) ==
    IF a.negative # b.negative THEN a.negative
    ELSE IF a.negative THEN BigLess(b.digits, a.digits)
    ELSE BigLess(a.digits, b.digits)

RECURSIVE PlaceOfProduct(_, _, _, _)
\* What the digits of A and B give at the k-th place of A * B before a
\* carry: the sum of A[i] * B[k + 1 - i], from the given i on.
PlaceOfProduct(A, B, k, i) ==
    IF i > Len(A) \/ i > k THEN 0
    ELSE (IF k + 1 - i <= Len(B) THEN A[i] * B[k + 1 - i] ELSE 0)
            + PlaceOfProduct(A, B, k, i + 1)

RECURSIVE Carried(_, _, _)
\* The decimal digits of the first k places with the carry of the places
\* after them
Carried(places, k, carry) ==
    IF k = 0
        THEN IF carry = 0 THEN <<>> ELSE DigitsOfString(Str(carry))
    ELSE Append(Carried(places, k - 1, (places[k] + carry) \div 10),
                (places[k] + carry) % 10)

DigitsTimes(A, B) ==
    BigStripped(Carried([k \in 1..(Len(A) + Len(B) - 1) |->
                            PlaceOfProduct(A, B, k, 1)],
                        Len(A) + Len(B) - 1, 0))

\* a * b of two Python ints
LongTimes(a, b) ==
    Long(a.negative # b.negative, DigitsTimes(a.digits, b.digits))

\* The digits of an int literal: decimal characters with single
\* underscores between them, none at an end.
IsDigitsWithUnderscores(s) ==
    /\ s # <<>>
    /\ \A i \in 1..Len(s) :
        \/ IsDecimalChar(s[i])
        \/ /\ s[i] = "_"
           /\ 1 < i /\ i < Len(s)
           /\ IsDecimalChar(s[i - 1]) /\ IsDecimalChar(s[i + 1])

\* sys.int_info.default_max_str_digits: int() reads no numeral of more
\* digits.
int_max_str_digits == 4300

\* The int of a numeral without its sign
IntOfNumeral(negative, numeral, digits) ==
    IF ~IsDigitsWithUnderscores(numeral) \/ Len(digits) > int_max_str_digits
        THEN [ok |-> FALSE, error |-> "ValueError"]
        ELSE [ok |-> TRUE, value |-> Long(negative, DigitsOfString(digits))]

IntOfStripped(stripped, signed) ==
    IntOfNumeral(signed /\ Head(stripped) = "-",
                 IF signed THEN Tail(stripped) ELSE stripped,
                 SelectSeq(IF signed THEN Tail(stripped) ELSE stripped,
                           IsDecimalChar))

IntOfString(stripped) ==
    IntOfStripped(stripped, stripped # <<>> /\ Head(stripped) \in {"+", "-"})

\* int(s) of a str: whitespace at the ends is dropped, then a decimal
\* numeral of decimal characters of any script with an optional sign,
\* single underscores between its digits allowed, gives its value, and
\* anything else a ValueError.
int(s) == IntOfString(Strip(s))

\* ------------------------------- parseNumberOfEpochsAndVersion, bestModelVersion

\* The dict version_rank, with "(ES)" at the value of the commented-out line.
version_rank_ES_above_default ==
    << <<<<"d", "e", "f", "a", "u", "l", "t">>, 0>>, << <<"(", "E", "S", ")">>, 1>>,
       << <<"(", "*", ")">>, 2>> >>

\* The dict version_rank: key, value pairs.
version_rank ==
    << <<<<"d", "e", "f", "a", "u", "l", "t">>, 0>>, << <<"(", "E", "S", ")">>, 0 - 1>>,
       << <<"(", "*", ")">>, 2>> >>

\* d[key] on a dict of pairs: the value, or a KeyError.
Lookup(d, key) ==
    IF \E i \in 1..Len(d) : d[i][1] = key
        THEN [ok |-> TRUE,
              value |-> d[CHOOSE i \in 1..Len(d) : d[i][1] = key][2]]
        ELSE [ok |-> FALSE, error |-> "KeyError"]

default_key == <<"d", "e", "f", "a", "u", "l", "t">>

\* The pair the parser returns from int(number_of_epochs) and
\* version_rank[version], or the exception one of the two raised.
ParsedEpochs(epochs, version) ==
    IF ~epochs.ok THEN [ok |-> FALSE, error |-> "ValueError"]
    ELSE IF ~version.ok THEN [ok |-> FALSE, error |-> "KeyError"]
    ELSE [ok |-> TRUE, epochs |-> epochs.value, version |-> version.value]

\* The parser on the words of a label that is not all digits: unpacking
\* into two names raises a ValueError unless there are two words.
ParsedParts(parts) ==
    IF Len(parts) # 2 THEN [ok |-> FALSE, error |-> "ValueError"]
    ELSE ParsedEpochs(int(parts[1]), Lookup(version_rank, parts[2]))

\* d.get(key, d["default"])
LookupOrDefault(d, key, found) ==
    IF found.ok THEN found ELSE Lookup(d, default_key)

LenientParts(parts) ==
    IF Len(parts) # 2 THEN [ok |-> FALSE, error |-> "ValueError"]
    ELSE ParsedEpochs(int(parts[1]),
                      LookupOrDefault(version_rank, parts[2],
                                      Lookup(version_rank, parts[2])))

\* A lenient parser, as version_rank.get(version, version_rank["default"])
\* would make it: an unknown tag ranks as default.
parseLenient(ev) ==
    IF IsDigit(ev)
        THEN ParsedEpochs(int(ev), Lookup(version_rank, default_key))
        ELSE LenientParts(Split(ev))

\* parseNumberOfEpochsAndVersion(ev): (epochs, version), or the exception
\* raised: ValueError when ev.split() is not two parts (the unpacking) or
\* int() fails, as it does on a digit that is no decimal, and KeyError
\* when the tag is no key of version_rank.
parseNumberOfEpochsAndVersion(ev) ==
    IF IsDigit(ev)
        THEN ParsedEpochs(int(ev), Lookup(version_rank, default_key))
        ELSE ParsedParts(Split(ev))

\* bestModelVersion(ev1, ev2): the label returned, or the exception raised
\* by the first parse that fails.
\* The label the comparison of the two parsed pairs keeps, or the exception
\* the parser raised, the first label's first.
BestOfParsed(ev1, ev2, p1, p2) ==
    IF ~p1.ok THEN [raised |-> TRUE, error |-> p1.error]
    ELSE IF ~p2.ok THEN [raised |-> TRUE, error |-> p2.error]
    ELSE IF p1.version > p2.version THEN [raised |-> FALSE, value |-> ev1]
    ELSE IF p2.version > p1.version THEN [raised |-> FALSE, value |-> ev2]
    ELSE IF LongLess(p2.epochs, p1.epochs)
        THEN [raised |-> FALSE, value |-> ev1]
    ELSE IF LongLess(p1.epochs, p2.epochs)
        THEN [raised |-> FALSE, value |-> ev2]
    ELSE [raised |-> FALSE, value |-> ev1]

bestModelVersion(ev1, ev2) ==
    BestOfParsed(ev1, ev2, parseNumberOfEpochsAndVersion(ev1),
                 parseNumberOfEpochsAndVersion(ev2))

\* The epoch counts and the tags of the labels compared: no tag, the two
\* recognized tags, two tags that are no key of version_rank, and the word
\* "default", which is one.
LabelEpochs == {5, 10, 15, 20, 30}

LabelTags ==
    {<<>>, <<"(", "E", "S", ")">>, <<"(", "*", ")">>,
     <<"e", "p", "o", "c", "h", "s">>, <<"(", "x", ")">>,
     <<"d", "e", "f", "a", "u", "l", "t">>}

\* What stands between the count and the tag: the blank of the titles, a
\* tab, and two blanks.
LabelSeparators == {<<" ">>, <<"\t">>, <<" ", " ">>}

\* The digits the count is written in: those of ASCII, or the
\* Arabic-Indic ones, which str.isdigit() and int() take as well.
arabic_indic_digits ==
    <<"U+0660", "U+0661", "U+0662", "U+0663", "U+0664", "U+0665", "U+0666",
      "U+0667", "U+0668", "U+0669">>

LabelDigits == {Digits, arabic_indic_digits}

Written(numeral, digits) ==
    [k \in 1..Len(numeral) |-> digits[DigitValue(numeral[k]) + 1]]

\* The label: the count, then the separator and the tag.
Label(epochs, digits, separator, tag) ==
    IF tag = <<>> THEN Written(Str(epochs), digits)
    ELSE Written(Str(epochs), digits) \o separator \o tag

Labels ==
    {[e |-> e, t |-> t, ev |-> Label(e, d, s, t)] :
        e \in LabelEpochs, d \in LabelDigits, s \in LabelSeparators,
        t \in LabelTags}

BvCalls ==
    {[pc |-> "call", e1 |-> l1.e, t1 |-> l1.t, e2 |-> l2.e, t2 |-> l2.t,
      ev1 |-> l1.ev, ev2 |-> l2.ev] : l1 \in Labels, l2 \in Labels}

\* One call of bestModelVersion returns or raises.
CallBestModelVersion ==
    /\ bv.pc = "call"
    /\ bv' = [bv EXCEPT !.pc = "done"] @@
             [result |-> bestModelVersion(bv.ev1, bv.ev2)]
    /\ UNCHANGED <<ms, walk, test_metrics_set, model_IDs, ids, run, tn>>

\* ---------------------------------------------------------------- modelID

\* values = numbers + letters
values == Digits \o ascii_uppercase

\* A slip: the two characters joined the other way round.
ProductPairSwapped(position) ==
    <<values[(position % Len(values)) + 1],
      values[(position \div Len(values)) + 1]>>

\* The pair product(values, values) yields after `position` pairs were taken.
ProductPair(position) ==
    <<values[(position \div Len(values)) + 1],
      values[(position % Len(values)) + 1]>>

\* A slip: no pair is skipped.
SkippedNever(model_id) == FALSE

\* `if model_id.isdigit(): continue`
Skipped(model_id) == IsDigit(model_id)

RECURSIVE modelID(_)
\* next() on the generator at `position`: the label yielded and the position
\* after it, or StopIteration when the product is used up.
modelID(position) ==
    IF position >= Len(values) * Len(values)
        THEN [raised |-> TRUE, error |-> "StopIteration",
              position |-> position]
    ELSE IF Skipped(ProductPair(position))
        THEN modelID(position + 1)
    ELSE [raised |-> FALSE, value |-> ProductPair(position),
          position |-> position + 1]

\* No request made yet.
IdsNone == [n |-> 0, last |-> [raised |-> FALSE]]

\* next(model_IDs), called on its own: the n-th request and its outcome.
NextModelID ==
    /\ ~ids.last.raised
    /\ LET r == modelID(model_IDs) IN
        /\ model_IDs' = r.position
        /\ ids' = [n |-> ids.n + 1, last |-> r]
    /\ UNCHANGED <<ms, walk, test_metrics_set, bv, run, tn>>

\* ------------------------------------------------- str.replace, re.sub

\* The occurrences found in two halves of a range, one after the other.
JoinedOccurrences(starts, right) ==
    [starts |-> starts \o right.starts, next |-> right.next]

RECURSIVE OccurrencesBetween(_, _, _, _, _)
\* The occurrences of a non-empty old in s that start at lo..hi, found from
\* the left and not overlapping, none of them before next: where they
\* start, and the index after the last of them.
OccurrencesAfter(left, s, old, lo, hi) ==
    JoinedOccurrences(left.starts,
                      OccurrencesBetween(s, old, lo, hi, left.next))

OccurrencesBetween(s, old, lo, hi, next) ==
    IF lo < hi
        THEN OccurrencesAfter(
                OccurrencesBetween(s, old, lo, (lo + hi) \div 2, next),
                s, old, (lo + hi) \div 2 + 1, hi)
    ELSE IF /\ lo >= next
            /\ lo + Len(old) - 1 <= Len(s)
            /\ SubSeq(s, lo, lo + Len(old) - 1) = old
        THEN [starts |-> <<lo>>, next |-> lo + Len(old)]
    ELSE [starts |-> <<>>, next |-> next]

Occurrences(s, old) ==
    IF s = <<>> THEN <<>> ELSE OccurrencesBetween(s, old, 1, Len(s), 1).starts

\* What s holds after the j-th of the occurrences of old and before the
\* next one; j = 0 for what it holds before the first.
PieceBetween(s, old, starts, j) ==
    SubSeq(s, IF j = 0 THEN 1 ELSE starts[j] + Len(old),
              IF j = Len(starts) THEN Len(s) ELSE starts[j + 1] - 1)

RECURSIVE ReplacedBetween(_, _, _, _, _, _)
\* The pieces lo..hi of s between the occurrences of old, with new between
\* them.
ReplacedBetween(s, old, new, starts, lo, hi) ==
    IF lo < hi
        THEN ReplacedBetween(s, old, new, starts, lo, (lo + hi) \div 2)
                \o new
                \o ReplacedBetween(s, old, new, starts,
                                   (lo + hi) \div 2 + 1, hi)
    ELSE PieceBetween(s, old, starts, lo)

ReplacedAt(s, old, new, starts) ==
    ReplacedBetween(s, old, new, starts, 0, Len(starts))

\* s.replace(old, new) for a non-empty old: the occurrences of old, found
\* from the left and not overlapping, each replaced by new.
StrReplace(s, old, new) == ReplacedAt(s, old, new, Occurrences(s, old))

SplitAt(s, separator, starts) ==
    [j \in 1..(Len(starts) + 1) |-> PieceBetween(s, separator, starts, j - 1)]

(***************************************************************************)
(* Regular expressions, as far as the tables use them: a pattern is a       *)
(* sequence of atoms, an atom a character class taken once or, greedily    *)
(* and with backtracking, one or more times (`+`), or a literal word; an   *)
(* atom may be optional (`?`) and part of a numbered group.  A pattern has *)
(* at least one atom that is not optional, so no match is empty.           *)
(***************************************************************************)
\* A character class: the characters it names, and whether \d and \w are of
\* it.
Chars(literals) == [literals |-> literals, decimal |-> FALSE, word |-> FALSE]

DigitClass == [literals |-> {}, decimal |-> TRUE, word |-> FALSE]

WordClass == [literals |-> {}, decimal |-> FALSE, word |-> TRUE]

\* The class with these characters more, as [\d.] and [\w-]
With(class, literals) == [class EXCEPT !.literals = @ \cup literals]

DigitDotClass == With(DigitClass, {"."})

InClass(class, c) ==
    \/ c \in class.literals
    \/ class.decimal /\ IsDecimalChar(c)
    \/ class.word /\ IsWordChar(c)

Once(literals) ==
    [chars |-> Chars(literals), many |-> FALSE, group |-> 0,
     optional |-> FALSE, word |-> <<>>]

Literal(s) == [k \in 1..Len(s) |-> Once({s[k]})]

Group(atom, n) == [atom EXCEPT !.group = n]

OneOrMore(chars) ==
    [chars |-> chars, many |-> TRUE, group |-> 0, optional |-> FALSE,
     word |-> <<>>]

\* `(word)`: a literal word taken as a whole, as in `(sparse)?`.
Word(s) ==
    [chars |-> Chars({}), many |-> FALSE, group |-> 0, optional |-> FALSE,
     word |-> s]

Optional(atom) == [atom EXCEPT !.optional = TRUE]

\* The least of a set of numbers that is not empty
Least(numbers) == CHOOSE k \in numbers : \A l \in numbers : k <= l

\* The first index from i on, or the one after the last, at which s has no
\* character of the class
RunEnd(chars, s, i) ==
    Least({k \in i..(Len(s) + 1) : k > Len(s) \/ ~InClass(chars, s[k])})

\* How many characters of s from index i on are of the class chars.
RunLength(chars, s, i) == IF i > Len(s) THEN 0 ELSE RunEnd(chars, s, i) - i

\* The most an atom can take at index i of s: its word if it is there,
\* the run of the characters of its class, one of them if it is not
\* repeated.
MostOf(atom, s, i) ==
    IF atom.word # <<>>
        THEN (IF /\ i + Len(atom.word) - 1 <= Len(s)
                 /\ SubSeq(s, i, i + Len(atom.word) - 1) = atom.word
                THEN Len(atom.word) ELSE 0)
    ELSE IF atom.many THEN RunLength(atom.chars, s, i)
    ELSE IF i <= Len(s) /\ InClass(atom.chars, s[i]) THEN 1
    ELSE 0

RECURSIVE MatchFrom(_, _, _, _)
\* Whether the atom k of pattern may take m characters at index i of s,
\* n the most it can take, and the atoms after it match behind them.
FitsLength(pattern, k, s, i, n, m) ==
    /\ pattern[k].word = <<>> \/ m = n \/ m = 0
    /\ MatchFrom(pattern, k + 1, s, i + m).ok

\* The length the atom k takes when n characters do not fit: the longest
\* that fits of the shorter ones, down to one character, or none for an
\* optional atom; -1 when none fits.
TakenLength(pattern, k, s, i, n, least) ==
    IF \A j \in 1..(n - least) : ~FitsLength(pattern, k, s, i, n, n - j)
        THEN -1
    ELSE n - (CHOOSE j \in 1..(n - least) :
                /\ FitsLength(pattern, k, s, i, n, n - j)
                /\ \A h \in 1..(j - 1) :
                        ~FitsLength(pattern, k, s, i, n, n - h))

TriedLength(pattern, k, s, i, m) ==
    IF m < 0 THEN [ok |-> FALSE]
    ELSE [ok |-> TRUE,
          lengths |-> <<m>> \o MatchFrom(pattern, k + 1, s, i + m).lengths]

\* The atom k with n characters and the match of the atoms after it: the
\* longest first, the shorter ones when the rest does not match.
Followed(pattern, k, s, i, n, rest) ==
    IF rest.ok THEN [ok |-> TRUE, lengths |-> <<n>> \o rest.lengths]
    ELSE TriedLength(pattern, k, s, i,
                     TakenLength(pattern, k, s, i, n,
                                 IF pattern[k].optional THEN 0 ELSE 1))

\* The atom k of pattern at index i of s, n the most it can take.
TryLength(pattern, k, s, i, n) ==
    IF n < (IF pattern[k].optional THEN 0 ELSE 1) THEN [ok |-> FALSE]
    ELSE Followed(pattern, k, s, i, n, MatchFrom(pattern, k + 1, s, i + n))

\* The atoms k.. of pattern matched at index i of s: the length each atom
\* takes, the longest first.
MatchFrom(pattern, k, s, i) ==
    IF k > Len(pattern) THEN [ok |-> TRUE, lengths |-> <<>>]
    ELSE TryLength(pattern, k, s, i, MostOf(pattern[k], s, i))

RECURSIVE SumTo(_, _)
SumTo(lengths, k) == IF k = 0 THEN 0 ELSE lengths[k] + SumTo(lengths, k - 1)

\* The match object: the string, the pattern, where the match starts, what
\* each atom took, and the index after the match.
MatchOf(pattern, s, start, lengths) ==
    [found |-> TRUE, string |-> s, pattern |-> pattern, start |-> start,
     lengths |-> lengths, end |-> start + SumTo(lengths, Len(lengths))]

MatchAt(pattern, s, start) ==
    MatchOf(pattern, s, start, MatchFrom(pattern, 1, s, start).lengths)

\* The match at the least of the indices the pattern matches at, None if
\* there is none.
MatchAmong(pattern, s, starts) ==
    IF starts = {} THEN [found |-> FALSE]
    ELSE MatchAt(pattern, s, Least(starts))

\* re.search(pattern, s) from index i on: the leftmost match, or None.
SearchFrom(pattern, s, i) ==
    MatchAmong(pattern, s, {k \in i..Len(s) : MatchFrom(pattern, 1, s, k).ok})

Search(pattern, s) == SearchFrom(pattern, s, 1)

RECURSIVE GroupFrom(_, _, _)
\* match.group(n): what the atoms of group n took.
GroupFrom(match, n, k) ==
    IF k > Len(match.pattern) THEN <<>>
    ELSE (IF match.pattern[k].group = n
            THEN SubSeq(match.string,
                        match.start + SumTo(match.lengths, k - 1),
                        match.start + SumTo(match.lengths, k) - 1)
            ELSE <<>>)
         \o GroupFrom(match, n, k + 1)

MatchGroup(match, n) == GroupFrom(match, n, 1)

RECURSIVE SubFrom(_, _, _, _)
\* re.sub(pattern, replacement, s) for a replacement string without
\* backslashes: every match, found from the left and not overlapping,
\* replaced by it.
SubAfter(pattern, replacement, s, i, m) ==
    IF ~m.found THEN SubSeq(s, i, Len(s))
    ELSE SubSeq(s, i, m.start - 1) \o replacement
            \o SubFrom(pattern, replacement, s, m.end)

SubFrom(pattern, replacement, s, i) ==
    SubAfter(pattern, replacement, s, i, SearchFrom(pattern, s, i))

Sub(pattern, replacement, s) == SubFrom(pattern, replacement, s, 1)

\* ---------------------------------------------------------- titleFromName

\* Characters outside ASCII, each one character of a Python string.
prime == "U+2032"

times == "U+00D7"

en_dash == "U+2013"

\* A replacement is a string or a function of the match.  A function is
\* "...{}...".format(...): literal pieces and groups, a group taken as it
\* is or converted first.
StringReplacement(s) == [callable |-> FALSE, string |-> s]

FunctionReplacement(pieces) == [callable |-> TRUE, pieces |-> pieces]

Text(s) == [group |-> 0, text |-> s, conversion |-> "str"]

GroupText(n) == [group |-> n, text |-> <<>>, conversion |-> "str"]

\* "{:.3g}".format(100 * float(match.group(n)))
GroupPercent(n) == [group |-> n, text |-> <<>>, conversion |-> "percent"]

\* "{}".format(int(float(match.group(n))))
GroupIntOfFloat(n) ==
    [group |-> n, text |-> <<>>, conversion |-> "int(float)"]

\* "{}".format(match.group(n).replace("_", ", "))
GroupCommas(n) == [group |-> n, text |-> <<>>, conversion |-> "commas"]

\* "{}".format(match.group(n).replace("_", "\u00d7"))
GroupTimes(n) == [group |-> n, text |-> <<>>, conversion |-> "times"]

\* "{}".format(match.groups(1)) for a pattern with the one group n: the
\* tuple of the groups, as str() shows it.
GroupsTuple(n) == [group |-> n, text |-> <<>>, conversion |-> "tuple"]

\* A function that returns one format if a test of the match holds and
\* another if not: `not match.group(n)`, `match.group(1) == match.group(2)`,
\* `int(match.group(n)) == 1`.
ConditionalReplacement(condition, pieces, otherwise) ==
    [callable |-> TRUE, condition |-> condition, pieces |-> pieces,
     otherwise |-> otherwise]

NotGroup(n) == [test |-> "not", group |-> n]

GroupsEqual == [test |-> "==", group |-> 0]

GroupIsOne(n) == [test |-> "int == 1", group |-> n]

(***************************************************************************)
(* Floats.  A natural number of any size is a sequence of limbs, its       *)
(* digits to the base 10^4, the first one not 0 unless the number is 0; to *)
(* this base the division by a divisor of 10^4 takes no more from the      *)
(* limbs before a limb than the remainder of the one before it.  A float   *)
(* is 0, or infinity, or m / 2^s with -971 <= s <= 1074 and m < 2^53, and  *)
(* 2^52 <= m unless s = 1074, as an IEEE 754 double holds a positive       *)
(* number, normal or subnormal; its sign is kept apart by what formats it. *)
(***************************************************************************)
Zeros(n) == [i \in 1..n |-> 0]

\* The number of a sequence of decimal digits, and the decimal digits of a
\* number.
BigOfDigits(D) ==
    LET limbs == (Len(D) + 3) \div 4
        P == Zeros(4 * limbs - Len(D)) \o D
    IN BigStripped(
        [j \in 1..limbs |->
            1000 * P[4 * j - 3] + 100 * P[4 * j - 2] + 10 * P[4 * j - 1]
                + P[4 * j]])

BigDigitsOf(A) ==
    BigStripped(
        [i \in 1..(4 * Len(A)) |->
            LET limb == A[(i + 3) \div 4] IN
            CASE i % 4 = 1 -> limb \div 1000
              [] i % 4 = 2 -> (limb \div 100) % 10
              [] i % 4 = 3 -> (limb \div 10) % 10
              [] OTHER -> limb % 10])

BigOf(n) == BigOfDigits(DigitsOfString(Str(n)))

BigOdd(A) == A[Len(A)] % 2 = 1

\* A \div d for a divisor d of 10^4.
BigDivideBy(A, d) ==
    BigStripped(
        [i \in 1..Len(A) |->
            (A[i] + 10000 * (IF i > 1 THEN A[i - 1] % d ELSE 0)) \div d])

\* c * A for a divisor c of 10^4: 10^4 * A \div (10^4 \div c).
BigTimes(A, c) == BigDivideBy(A \o <<0>>, 10000 \div c)

\* A + 1 for a number written to the base top + 1.
Successor(A, top) ==
    LET below == {i \in 1..Len(A) : A[i] # top} IN
    IF below = {} THEN <<1>> \o Zeros(Len(A))
    ELSE LET last == CHOOSE i \in below : \A j \in below : j <= i IN
         SubSeq(A, 1, last - 1) \o <<A[last] + 1>> \o Zeros(Len(A) - last)

BigSucc(A) == Successor(A, 9999)

DigitsSucc(D) == Successor(D, 9)

\* 2^16 * A and 5^16 * A
BigTimes65536(A) ==
    BigTimes(BigTimes(BigTimes(BigTimes(A, 16), 16), 16), 16)

BigTimes5To16(A) ==
    BigTimes(BigTimes(BigTimes(BigTimes(A, 625), 625), 625), 625)

RECURSIVE BigTimesPow2(_, _)
BigTimesPow2(A, n) ==
    IF n >= 16 /\ A # <<0>> THEN BigTimesPow2(BigTimes65536(A), n - 16)
    ELSE IF n >= 4 /\ A # <<0>> THEN BigTimesPow2(BigTimes(A, 16), n - 4)
    ELSE IF n >= 1 /\ A # <<0>> THEN BigTimesPow2(BigTimes(A, 2), n - 1)
    ELSE A

RECURSIVE BigTimesPow5(_, _)
BigTimesPow5(A, n) ==
    IF n >= 16 /\ A # <<0>> THEN BigTimesPow5(BigTimes5To16(A), n - 16)
    ELSE IF n >= 4 /\ A # <<0>> THEN BigTimesPow5(BigTimes(A, 625), n - 4)
    ELSE IF n >= 1 /\ A # <<0>> THEN BigTimesPow5(BigTimes(A, 5), n - 1)
    ELSE A

RECURSIVE BigDivide(_, _, _, _, _)
\* A \div d and A % d for a divisor d of 200000 at most, by long division
\* from limb i on.
BigDivide(A, d, i, remainder, quotient) ==
    IF i > Len(A) THEN [q |-> BigStripped(quotient), r |-> remainder]
    ELSE BigDivide(A, d, i + 1, (10000 * remainder + A[i]) % d,
                   Append(quotient, (10000 * remainder + A[i]) \div d))

TwoTo52 == BigTimesPow2(<<1>>, 52)

TwoTo53 == BigTimesPow2(<<1>>, 53)

TwoTo57 == BigTimesPow2(<<1>>, 57)

TwoTo69 == BigTimesPow2(<<1>>, 69)

FloatZero == [zero |-> TRUE]

\* float("inf"): what a value of 2^1024 and more is rounded to.
FloatInf == [zero |-> FALSE, inf |-> TRUE]

\* m / 2^s, which is infinity from 2^1024 on.
FloatOfExponent(m, s) ==
    IF s < 0 - 971 THEN FloatInf ELSE [zero |-> FALSE, m |-> m, s |-> s]

\* The float of the significand m: 2^53 is 2^52 with the next exponent.
FloatOfSignificand(m, s) ==
    IF m = <<0>> THEN FloatZero
    ELSE IF m = TwoTo53 THEN FloatOfExponent(TwoTo52, s - 1)
    ELSE FloatOfExponent(m, s)

FloatOf(q, up, s) == FloatOfSignificand(IF up THEN BigSucc(q) ELSE q, s)

RECURSIVE ScaleUp(_, _, _)
\* A doubled until it is no less than T, and 1074 times at most, where the
\* subnormal floats are: the result and s, the number of times it was
\* doubled.
ScaleUp(A, T, s) ==
    IF s + 16 <= 1074 /\ BigLess(BigTimes65536(A), T)
        THEN ScaleUp(BigTimes65536(A), T, s + 16)
    ELSE IF s + 4 <= 1074 /\ BigLess(BigTimes(A, 16), T)
        THEN ScaleUp(BigTimes(A, 16), T, s + 4)
    ELSE IF s + 1 <= 1074 /\ BigLess(A, T)
        THEN ScaleUp(BigTimes(A, 2), T, s + 1)
    ELSE [A |-> A, s |-> s]

\* A number of doublings that leaves A below T: 13 for each limb that T
\* has more than A but one, as 2^13 < 10^4, and 1074 at most.
DoublingsBelow(A, T) ==
    IF Len(T) - Len(A) < 2 THEN 0
    ELSE IF 13 * (Len(T) - Len(A) - 1) > 1074 THEN 1074
    ELSE 13 * (Len(T) - Len(A) - 1)

ScaleUpFrom(A, T, s) == ScaleUp(BigTimesPow2(A, s), T, s)

\* A doubled until it is no less than T, and 1074 times at most.
ScaleUpTo(A, T) == ScaleUpFrom(A, T, DoublingsBelow(A, T))

\* q and R, the last `limbs` limbs, rounded to q or the next, a tie to the
\* even one.
RoundedLimbs(q, R, limbs, s) ==
    FloatOf(q,
            /\ limbs > 0
            /\ \/ R[1] > 5000
               \/ /\ R[1] = 5000
                  /\ \/ \E i \in 2..limbs : R[i] # 0
                     \/ BigOdd(q),
            s)

\* A with zeros before it, to more than `limbs` limbs
PaddedLimbs(A, limbs) ==
    IF Len(A) > limbs THEN A ELSE Zeros(limbs + 1 - Len(A)) \o A

AtLimb(P, limbs, s) ==
    RoundedLimbs(BigStripped(SubSeq(P, 1, Len(P) - limbs)),
                 SubSeq(P, Len(P) - limbs + 1, Len(P)), limbs, s)

\* A \div 10^(4 * limbs) rounded, a tie to the even one, for A below 2^53
\* before its last `limbs` limbs, as a float of the exponent s.
RoundedAtLimb(A, limbs, s) == AtLimb(PaddedLimbs(A, limbs), limbs, s)

DoubleOfScaled(scaled, limbs) == RoundedAtLimb(scaled.A, limbs, scaled.s)

\* A number shifted right by four bits and by one: what stays, the last
\* bit shifted out, and whether a bit before it was set.
ShiftedBy4(x) ==
    [q |-> BigDivideBy(x.q, 16), guard |-> x.q[Len(x.q)] % 16 >= 8,
     sticky |-> x.sticky \/ x.guard \/ x.q[Len(x.q)] % 8 # 0]

ShiftedBy1(x) ==
    [q |-> BigDivideBy(x.q, 2), guard |-> BigOdd(x.q),
     sticky |-> x.sticky \/ x.guard]

ShiftedBy16(x) == ShiftedBy4(ShiftedBy4(ShiftedBy4(ShiftedBy4(x))))

RECURSIVE Shifted(_, _)
Shifted(x, t) ==
    IF t >= 16 /\ x.q # <<0>> THEN Shifted(ShiftedBy16(x), t - 16)
    ELSE IF t >= 4 /\ x.q # <<0>> THEN Shifted(ShiftedBy4(x), t - 4)
    ELSE IF t >= 1 /\ x.q # <<0>> THEN Shifted(ShiftedBy1(x), t - 1)
    ELSE IF t = 0 THEN x
    ELSE [q |-> x.q, guard |-> FALSE, sticky |-> x.sticky \/ x.guard]

\* A \div 2^t, with the last bit shifted out and whether a bit before it
\* was set.
ShiftRight(A, t, guard, sticky) ==
    Shifted([q |-> A, guard |-> guard, sticky |-> sticky], t)

\* A \div 2^16
BigDivideBy65536(A) ==
    BigDivideBy(BigDivideBy(BigDivideBy(BigDivideBy(A, 16), 16), 16), 16)

RECURSIVE BitsAbove53(_, _)
\* How many bits A has more than 53, counted to 972: from there on the
\* value is above every float.
BitsAbove53(A, t) ==
    IF t <= 971 /\ ~BigLess(A, TwoTo69)
        THEN BitsAbove53(BigDivideBy65536(A), t + 16)
    ELSE IF t <= 971 /\ ~BigLess(A, TwoTo57)
        THEN BitsAbove53(BigDivideBy(A, 16), t + 4)
    ELSE IF t <= 971 /\ ~BigLess(A, TwoTo53)
        THEN BitsAbove53(BigDivideBy(A, 2), t + 1)
    ELSE t

\* The bits that stay after a shift, one more if the bits shifted out are
\* above a half, or a half and the last bit that stays is set.
RoundedShifted(shifted) ==
    IF shifted.guard /\ (shifted.sticky \/ BigOdd(shifted.q))
        THEN BigSucc(shifted.q) ELSE shifted.q

WholeShifted(whole, t, more) ==
    FloatOfSignificand(RoundedShifted(ShiftRight(whole, t, FALSE, more)),
                       0 - t)

\* The double nearest to a whole number of 2^53 at least with something
\* after it, if `more`.
DoubleOfWhole(whole, more) == WholeShifted(whole, BitsAbove53(whole, 0), more)

\* The double nearest to numerator / 10^(4 * limbs): a value of more than
\* 312 digits before the point is above every float.
DoubleOfLimbs(numerator, limbs) ==
    IF numerator = <<0>> THEN FloatZero
    ELSE IF Len(numerator) - limbs > 78 THEN FloatInf
    ELSE IF ~BigLess(numerator, TwoTo53 \o Zeros(limbs))
        THEN DoubleOfWhole(SubSeq(numerator, 1, Len(numerator) - limbs),
                           \E i \in 1..limbs :
                                numerator[Len(numerator) - limbs + i] # 0)
    ELSE DoubleOfScaled(ScaleUpTo(numerator, TwoTo52 \o Zeros(limbs)),
                        limbs)

\* The double nearest to D / 10^k, a tie to the even one, for the digits D
\* of a numeral: what float() makes of a decimal numeral.
DoubleOfDecimal(D, k) ==
    DoubleOfLimbs(BigOfDigits(D \o Zeros(4 * ((k + 3) \div 4) - k)),
                  (k + 3) \div 4)

\* The quotient of a division by den rounded, a tie to the even one.
RatioOfDivision(division, den, s) ==
    FloatOf(division.q,
            \/ 2 * division.r > den
            \/ 2 * division.r = den /\ BigOdd(division.q),
            s)

RatioOfScaled(scaled, den) ==
    RatioOfDivision(BigDivide(scaled.A, den, 1, 0, <<>>), den, scaled.s)

\* The double nearest to num / den, a tie to the even one: num / den of two
\* ints, 0 <= num, 0 < den <= 200000, which is the float that a fraction of
\* the model stands for.
DoubleOfRatio(num, den) ==
    IF num = 0 THEN FloatZero
    ELSE RatioOfScaled(
            ScaleUpTo(BigOf(num), BigTimesPow2(BigOf(den), 52)), den)

\* The bits that stay after the shift, rounded, at their place in a
\* significand of 53 bits.
ProductOfShifted(bits, shifted, s) ==
    FloatOfSignificand(BigTimesPow2(RoundedShifted(shifted), 53 - bits), s)

\* A product of t bits more than 53
ProductShifted(bits, product, t, s) ==
    ProductOfShifted(bits, ShiftRight(product, t + 53 - bits, FALSE, FALSE),
                     s - t)

\* The product rounded to `bits` bits
ProductRounded(bits, product, s) ==
    ProductShifted(bits, product, BitsAbove53(product, 0), s)

\* 100 * x in the floats of `bits` bits, 53 for a float and 24 for a
\* numpy.float32, of which x is one and a normal one: the exact product
\* rounded to `bits` bits, a tie to the even one.
FloatTimes100In(bits, x) ==
    IF x.zero \/ x = FloatInf THEN x
    ELSE ProductRounded(bits, BigTimes(BigTimes(x.m, 10), 10), x.s)

\* 100 * x of floats
FloatTimes100(x) == FloatTimes100In(53, x)

\* The float written out: its decimal digits, of which the last `scale`
\* ones are decimals.
ExactDecimal(x) ==
    IF x.s >= 0
        THEN [digits |-> BigDigitsOf(BigTimesPow5(x.m, x.s)), scale |-> x.s]
        ELSE [digits |-> BigDigitsOf(BigTimesPow2(x.m, 0 - x.s)),
              scale |-> 0]

\* float(s) for s of decimal characters and dots, which is all that the
\* groups [\d.]+ and 0\.\d+ hand to it: the float nearest to the numeral,
\* infinity from 2^1024 on, or a ValueError for more than one dot and for
\* no digit.
float(s) ==
    LET dots == {i \in 1..Len(s) : s[i] = "."} IN
    IF \/ Cardinality(dots) > 1
       \/ \A i \in 1..Len(s) : ~IsDecimalChar(s[i])
       \/ \E i \in 1..Len(s) : ~IsDecimalChar(s[i]) /\ s[i] # "."
        THEN [ok |-> FALSE, error |-> "ValueError"]
        ELSE [ok |-> TRUE,
              value |-> DoubleOfDecimal(
                            DigitsOfString(SelectSeq(s, IsDecimalChar)),
                            IF dots = {} THEN 0
                            ELSE Len(s) - (CHOOSE i \in dots : TRUE))]

\* The digits before the decimals
IntOfDecimal(decimal) ==
    IF Len(decimal.digits) <= decimal.scale THEN <<0>>
    ELSE SubSeq(decimal.digits, 1, Len(decimal.digits) - decimal.scale)

\* int(x) of a float that is not negative and not infinity: its whole
\* part.
IntOfFloat(x) == IF x.zero THEN <<0>> ELSE IntOfDecimal(ExactDecimal(x))

\* A float that is not 0 rounded to p significant digits, a tie to the even
\* one: the digits, and the power of ten of the first of them.
SignificantDigits(decimal, p) ==
    LET E == decimal.digits
        n == Len(E)
        up == \/ E[p + 1] > 5
              \/ /\ E[p + 1] = 5
                 /\ \/ \E i \in (p + 2)..n : E[i] # 0
                    \/ E[p] % 2 = 1
        rounded == IF up THEN DigitsSucc(SubSeq(E, 1, p)) ELSE SubSeq(E, 1, p)
    IN IF n <= p
        THEN [digits |-> E, exponent |-> n - 1 - decimal.scale]
       ELSE IF Len(rounded) > p
        THEN [digits |-> SubSeq(rounded, 1, p),
              exponent |-> n - decimal.scale]
       ELSE [digits |-> rounded, exponent |-> n - 1 - decimal.scale]

WithoutTrailingZeros(A) ==
    LET nonzero == {i \in 1..Len(A) : A[i] # 0} IN
    IF nonzero = {} THEN <<A[1]>>
    ELSE SubSeq(A, 1, CHOOSE i \in nonzero : \A j \in nonzero : j <= i)

\* The digits of a value without trailing zeros and the power of ten of
\* the first one, as the format "g" of precision p writes them.
GeneralWritten(p, digits, exponent) ==
    LET size == IF exponent < 0 THEN 0 - exponent ELSE exponent
    IN IF exponent < 0 - 4 \/ exponent >= p
        THEN <<digits[1]>>
                \o (IF Len(digits) > 1 THEN <<".">> \o Tail(digits) ELSE <<>>)
                \o <<"e", IF exponent < 0 THEN "-" ELSE "+">>
                \o (IF size < 10 THEN <<"0">> ELSE <<>>)
                \o Str(size)
       ELSE IF exponent < 0
        THEN <<"0", ".">> \o StringOfDigits(Zeros(0 - exponent - 1))
                \o digits
       ELSE IF Len(digits) <= exponent + 1
        THEN digits \o StringOfDigits(Zeros(exponent + 1 - Len(digits)))
       ELSE SubSeq(digits, 1, exponent + 1) \o <<".">>
                \o SubSeq(digits, exponent + 2, Len(digits))

GeneralOfRounded(p, rounded) ==
    GeneralWritten(p, StringOfDigits(WithoutTrailingZeros(rounded.digits)),
                   rounded.exponent)

\* "{:.<p>g}".format(x) for a float x that is not negative and p >= 1: p
\* significant digits, trailing zeros and a trailing point dropped, with
\* an exponent of two digits at least if the power of ten of the rounded
\* value is below -4 or not below p.
FormatGFloat(p, x) ==
    IF x.zero THEN <<"0">>
    ELSE IF x = FloatInf THEN <<"i", "n", "f">>
    ELSE GeneralOfRounded(p, SignificantDigits(ExactDecimal(x), p))

\* "{:.<p>g}".format(num / den)
FormatG(p, num, den) == FormatGFloat(p, DoubleOfRatio(num, den))

\* Whether float() reads these digits, of which that many are decimals,
\* as x.
ReadsDigits(x, digits, decimals) ==
    x = DoubleOfDecimal(IF decimals >= 0 THEN digits
                        ELSE digits \o Zeros(0 - decimals),
                        IF decimals >= 0 THEN decimals ELSE 0)

ReadsRounded(x, rounded) ==
    ReadsDigits(x, rounded.digits,
                Len(rounded.digits) - 1 - rounded.exponent)

\* Whether float() reads x rounded to p significant digits as x.
ReadsAs(x, decimal, p) == ReadsRounded(x, SignificantDigits(decimal, p))

\* The fewest significant digits that float() reads as x, of 17 at most.
ReprPrecision(x, decimal) ==
    Least({q \in 1..17 : ReadsAs(x, decimal, q)})

\* The digits of repr(x) and the power of ten of the first one, written
\* with an exponent if that power is below -4 or not below 16, and else
\* with a point and one decimal at least.
ReprWritten(digits, exponent) ==
    LET size == IF exponent < 0 THEN 0 - exponent ELSE exponent
    IN IF exponent < 0 - 4 \/ exponent >= 16
        THEN <<digits[1]>>
                \o (IF Len(digits) > 1 THEN <<".">> \o Tail(digits) ELSE <<>>)
                \o <<"e", IF exponent < 0 THEN "-" ELSE "+">>
                \o (IF size < 10 THEN <<"0">> ELSE <<>>)
                \o Str(size)
       ELSE IF exponent < 0
        THEN <<"0", ".">> \o StringOfDigits(Zeros(0 - exponent - 1))
                \o digits
       ELSE IF Len(digits) <= exponent + 1
        THEN digits \o StringOfDigits(Zeros(exponent + 1 - Len(digits)))
                \o <<".", "0">>
       ELSE SubSeq(digits, 1, exponent + 1) \o <<".">>
                \o SubSeq(digits, exponent + 2, Len(digits))

ReprOfRounded(rounded) ==
    ReprWritten(StringOfDigits(WithoutTrailingZeros(rounded.digits)),
                rounded.exponent)

ReprOfDecimal(x, decimal) ==
    ReprOfRounded(SignificantDigits(decimal, ReprPrecision(x, decimal)))

\* repr(x) and str(x) for a float x above 0: the fewest significant digits
\* that float() reads as x.
FloatRepr(x) ==
    IF x = FloatInf THEN <<"i", "n", "f">>
    ELSE ReprOfDecimal(x, ExactDecimal(x))

\* The digits E of a float, of which the last `cut` ones go, rounded to
\* the ones that stay, a tie to the even one.
FixedWhole(decimal, cut, E) ==
    LET n == Len(E)
        head == SubSeq(E, 1, n - cut)
        up == \/ E[n - cut + 1] > 5
              \/ /\ E[n - cut + 1] = 5
                 /\ \/ \E i \in (n - cut + 2)..n : E[i] # 0
                    \/ BigOdd(head)
    IN IF cut <= 0 THEN decimal.digits \o Zeros(0 - cut)
       ELSE IF up THEN DigitsSucc(head) ELSE head

\* The digits with the zeros before them that d decimals and one digit
\* before the point take.
FixedPadded(d, stripped) ==
    Zeros(IF d + 1 > Len(stripped) THEN d + 1 - Len(stripped) ELSE 0)
        \o stripped

FixedWritten(d, padded) ==
    StringOfDigits(SubSeq(padded, 1, Len(padded) - d))
        \o (IF d = 0 THEN <<>>
            ELSE <<".">>
                    \o StringOfDigits(SubSeq(padded, Len(padded) - d + 1,
                                        Len(padded))))

FixedOfCut(d, decimal, cut) ==
    FixedWritten(d, FixedPadded(d, BigStripped(
        FixedWhole(decimal, cut,
                   Zeros(IF cut + 1 > Len(decimal.digits)
                            THEN cut + 1 - Len(decimal.digits) ELSE 0)
                        \o decimal.digits))))

FixedOfDecimal(d, decimal) == FixedOfCut(d, decimal, decimal.scale - d)

\* "{:.<d>f}".format(x) for a float x that is not negative: x rounded to d
\* decimals, a tie to the even one.
FormatFFloat(d, x) ==
    IF x = FloatInf THEN <<"i", "n", "f">>
    ELSE FixedOfDecimal(d, IF x.zero THEN [digits |-> <<0>>, scale |-> 0]
                           ELSE ExactDecimal(x))

\* One piece of the format, given the match.
FloatPiece(conversion, x) ==
    IF conversion = "percent" THEN FormatGFloat(3, FloatTimes100(x))
    ELSE StringOfDigits(IntOfFloat(x))

GroupPiece(piece, group) ==
    IF piece.conversion \in {"percent", "int(float)"}
        THEN FloatPiece(piece.conversion, float(group).value)
    ELSE IF piece.conversion \in {"commas", "times"}
        THEN StrReplace(group, <<"_">>,
                        IF piece.conversion = "commas" THEN <<",", " ">>
                        ELSE <<times>>)
    ELSE IF piece.conversion = "tuple"
        THEN <<"(", "'">> \o group \o <<"'", ",", ")">>
    ELSE group

Piece(piece, match) ==
    IF piece.group = 0 THEN piece.text
    ELSE GroupPiece(piece, MatchGroup(match, piece.group))

\* The format the function takes for this match.
IsOne(number) == number.ok /\ number.value = LongOf(1)

ConditionHolds(condition, match) ==
    IF condition.test = "not"
        THEN MatchGroup(match, condition.group) = <<>>
    ELSE IF condition.test = "=="
        THEN MatchGroup(match, 1) = MatchGroup(match, 2)
    ELSE IsOne(int(MatchGroup(match, condition.group)))

PiecesOf(replacement, match) ==
    IF "condition" \notin DOMAIN replacement THEN replacement.pieces
    ELSE IF ConditionHolds(replacement.condition, match)
        THEN replacement.pieces
    ELSE replacement.otherwise

RECURSIVE CallReplacementFunction(_, _)
\* replacement_function(match)
CallReplacementFunction(pieces, match) ==
    IF pieces = <<>> THEN <<>>
    ELSE Piece(Head(pieces), match)
            \o CallReplacementFunction(Tail(pieces), match)

\* The exception of one piece: the ValueError of float() of a group that
\* is no numeral, and the OverflowError of int() of infinity.
FloatPieceError(conversion, number) ==
    IF ~number.ok THEN "ValueError"
    ELSE IF conversion = "int(float)" /\ number.value = FloatInf
        THEN "OverflowError"
    ELSE "None"

PieceError(piece, group) ==
    IF piece.conversion \notin {"percent", "int(float)"} THEN "None"
    ELSE FloatPieceError(piece.conversion, float(group))

\* The exception of `int(match.group(n)) == 1`: the ValueError of int() of
\* more digits than it reads.
ConditionError(replacement, match) ==
    IF /\ "condition" \in DOMAIN replacement
       /\ replacement.condition.test = "int == 1"
       /\ ~int(MatchGroup(match, replacement.condition.group)).ok
        THEN "ValueError"
        ELSE "None"

RECURSIVE PiecesError(_, _)
\* The exception of the first piece that raises one
ErrorOrOfRest(error, pieces, match) ==
    IF error # "None" THEN error ELSE PiecesError(pieces, match)

PiecesError(pieces, match) ==
    IF pieces = <<>> THEN "None"
    ELSE ErrorOrOfRest(PieceError(Head(pieces),
                                  MatchGroup(match, Head(pieces).group)),
                       Tail(pieces), match)

\* The exception replacement_function(match) raises, "None" if it returns.
ReplacementFunctionError(replacement, match) ==
    ErrorOrOfRest(ConditionError(replacement, match),
                  PiecesOf(replacement, match), match)

RECURSIVE SubEachFrom(_, _, _, _)
\* re.sub(pattern, function, s): the function called on every match.
SubEachAfter(pattern, replacement, s, i, m) ==
    IF ~m.found THEN SubSeq(s, i, Len(s))
    ELSE SubSeq(s, i, m.start - 1)
            \o CallReplacementFunction(PiecesOf(replacement, m), m)
            \o SubEachFrom(pattern, replacement, s, m.end)

SubEachFrom(pattern, replacement, s, i) ==
    SubEachAfter(pattern, replacement, s, i, SearchFrom(pattern, s, i))

\* The entry of a function on a name its pattern was searched in: the
\* string the function returns on the match replaces every match.
ApplyFunction(entry, name, match) ==
    IF match.found
        THEN Sub(entry.pattern,
                 CallReplacementFunction(
                    PiecesOf(entry.replacement, match), match),
                 name)
        ELSE name

\* A slip: the function handed to re.sub, which calls it on every match.
ApplyEntryEachMatch(entry, name) ==
    IF entry.replacement.callable
        THEN SubEachFrom(entry.pattern, entry.replacement, name, 1)
        ELSE Sub(entry.pattern, entry.replacement.string, name)

\* The body of the inner loop for one (pattern, replacement): a function is
\* called on the first match found by search, if there is one, and the
\* string it returns, or the given string, is substituted for every match.
\* With a function and no match re.sub is handed the function, finds no
\* match either, and returns name as it is.
ApplyEntry(entry, name) ==
    IF entry.replacement.callable
        THEN ApplyFunction(entry, name, Search(entry.pattern, name))
        ELSE Sub(entry.pattern, entry.replacement.string, name)

\* The calls of replacement_function in that pass: where the match it was
\* handed starts and ends.
CallOn(match) ==
    IF match.found THEN <<[start |-> match.start, end |-> match.end]>>
    ELSE <<>>

ReplacementCalls(entry, name) ==
    IF entry.replacement.callable THEN CallOn(Search(entry.pattern, name))
    ELSE <<>>

\* The exception of that pass, if the replacement function raises one,
\* and "None" if not.
MatchError(replacement, match) ==
    IF match.found THEN ReplacementFunctionError(replacement, match)
    ELSE "None"

EntryError(entry, name) ==
    IF entry.replacement.callable
        THEN MatchError(entry.replacement, Search(entry.pattern, name))
        ELSE "None"

\* A slip: a table read from its last entry to its first.
EntryAtReversed(tables, i, j) == tables[i][Len(tables[i]) + 1 - j]

\* `for replacements in replacement_dictionaries:
\*      for pattern, replacement in replacements.items():`
\* the j-th entry, in insertion order, of the i-th table.
EntryAt(tables, i, j) == tables[i][j]

\* The names and the pattern tables of the calls.  A table is a dict: its
\* entries in insertion order, their patterns distinct.
TitleNames ==
    {<<>>, <<"a", "b">>, <<"a", "/", "b">>, <<"b", "-", "a", "_", "b">>,
     <<"b", "-", "a", "b", "-", "b">>, <<"a", "_", "b", "/", "a", "-", "b">>}

TableSwap ==
    << [pattern |-> Literal(<<"a">>),
        replacement |-> StringReplacement(<<"b">>)],
       [pattern |-> Literal(<<"b">>),
        replacement |-> StringReplacement(<<"a", "-">>)] >>

TableMark ==
    << [pattern |-> Literal(<<"b">>),
        replacement |-> StringReplacement(<<"_", "a">>)],
       [pattern |-> Literal(<<"a", "_">>),
        replacement |-> StringReplacement(<<"/">>)] >>

TableFunction ==
    << [pattern |-> Literal(<<"-">>)
                        \o <<Group(OneOrMore(Chars({"a", "b"})), 1)>>,
        replacement |-> FunctionReplacement(
                            <<Text(<<"/">>), GroupText(1), Text(<<"a">>)>>)],
       [pattern |-> Literal(<<"a", "a">>),
        replacement |-> StringReplacement(<<"b">>)] >>

Tables == {<<>>, TableSwap, TableMark, TableFunction}

\* replacement_dictionaries: None (the default), a list of tables, or one
\* table that is not in a list.
TitleCalls ==
    {[pc |-> "call", given |-> name, name |-> name,
      replacement_dictionaries |-> d, calls |-> <<>>] :
        name \in TitleNames,
        d \in {[type |-> "None"]}
              \cup {[type |-> "dict", value |-> t] : t \in Tables}
              \cup {[type |-> "list", value |-> l] :
                        l \in SeqsUpTo(Tables, MaxTables)}}

\* `if replacement_dictionaries:` None, an empty list and an empty dict are
\* falsy; a dict is put in a list.
TitleEnter ==
    /\ tn.pc = "call"
    /\ LET d == tn.replacement_dictionaries IN
        IF d.type # "None" /\ d.value # <<>>
            THEN tn' = [pc |-> "tables", given |-> tn.given,
                        name |-> tn.name,
                        replacement_dictionaries |->
                            IF d.type = "list" THEN d.value ELSE <<d.value>>,
                        calls |-> <<>>, i |-> 1, j |-> 1]
            ELSE tn' = [pc |-> "slash", given |-> tn.given,
                        name |-> tn.name,
                        replacement_dictionaries |-> <<>>,
                        calls |-> <<>>, i |-> 1, j |-> 1]
    /\ UNCHANGED <<ms, walk, test_metrics_set, bv, model_IDs, ids, run>>

\* The call after the pass of one entry: left with the exception the
\* replacement function raised, or on to the next entry with the name the
\* pass made.
TitleAfter(title, entry, error, calls) ==
    IF error # "None" THEN [title EXCEPT !.pc = error, !.calls = calls]
    ELSE [title EXCEPT !.name = ApplyEntry(entry, @), !.calls = calls,
                       !.j = @ + 1]

AfterEntry(title, entry) ==
    TitleAfter(title, entry, EntryError(entry, title.name),
               ReplacementCalls(entry, title.name))

\* One pass of the inner loop.  An exception of the replacement function
\* leaves titleFromName.
TitleEntry ==
    /\ tn.pc = "tables"
    /\ tn.i <= Len(tn.replacement_dictionaries)
    /\ tn.j <= Len(tn.replacement_dictionaries[tn.i])
    /\ tn' = AfterEntry(tn, EntryAt(tn.replacement_dictionaries, tn.i, tn.j))
    /\ UNCHANGED <<ms, walk, test_metrics_set, bv, model_IDs, ids, run>>

\* The inner loop ends: on to the next table.
TitleNextTable ==
    /\ tn.pc = "tables"
    /\ tn.i <= Len(tn.replacement_dictionaries)
    /\ tn.j > Len(tn.replacement_dictionaries[tn.i])
    /\ tn' = [tn EXCEPT !.i = @ + 1, !.j = 1]
    /\ UNCHANGED <<ms, walk, test_metrics_set, bv, model_IDs, ids, run>>

\* The outer loop ends.
TitleTablesDone ==
    /\ tn.pc = "tables"
    /\ tn.i > Len(tn.replacement_dictionaries)
    /\ tn' = [tn EXCEPT !.pc = "slash"]
    /\ UNCHANGED <<ms, walk, test_metrics_set, bv, model_IDs, ids, run>>

\* name = name.replace("/", "; ")
TitleSlash ==
    /\ tn.pc = "slash"
    /\ tn' = [tn EXCEPT !.pc = "dash",
                        !.name = StrReplace(@, <<"/">>, <<";", " ">>)]
    /\ UNCHANGED <<ms, walk, test_metrics_set, bv, model_IDs, ids, run>>

\* name = name.replace("-", "; ")
TitleDash ==
    /\ tn.pc = "dash"
    /\ tn' = [tn EXCEPT !.pc = "underscore",
                        !.name = StrReplace(@, <<"-">>, <<";", " ">>)]
    /\ UNCHANGED <<ms, walk, test_metrics_set, bv, model_IDs, ids, run>>

\* name = name.replace("_", " "); return name
TitleUnderscore ==
    /\ tn.pc = "underscore"
    /\ tn' = [tn EXCEPT !.pc = "done",
                        !.name = StrReplace(@, <<"_">>, <<" ">>)]
    /\ UNCHANGED <<ms, walk, test_metrics_set, bv, model_IDs, ids, run>>

\* --------------------------------------------------- titleFromDataSetName

\* data_set_name_replacements
data_set_name_replacements ==
    <<
       \* "10x": "10x"
       [pattern |->
            Literal(<<"1", "0", "x">>),
        replacement |->
            StringReplacement(
            <<"1", "0", "x">>)],
       \* "10x_20k": "10x (20k samples)"
       [pattern |->
            Literal(<<"1", "0", "x", "_", "2", "0", "k">>),
        replacement |->
            StringReplacement(
            <<"1", "0", "x", " ", "(", "2", "0", "k", " ", "s", "a", "m",
              "p", "l", "e", "s", ")">>)],
       \* "10x_arc_lira": "10x ARC LIRA"
       [pattern |->
            Literal(<<"1", "0", "x", "_", "a", "r", "c", "_", "l", "i",
                          "r", "a">>),
        replacement |->
            StringReplacement(
            <<"1", "0", "x", " ", "A", "R", "C", " ", "L", "I", "R", "A">>)],
       \* "development": "Development"
       [pattern |->
            Literal(<<"d", "e", "v", "e", "l", "o", "p", "m", "e", "n",
                          "t">>),
        replacement |->
            StringReplacement(
            <<"D", "e", "v", "e", "l", "o", "p", "m", "e", "n", "t">>)],
       \* r"dimm_sc_10x_(\w+)": "3\' ({})".format(match.group(1))
       [pattern |->
            Literal(<<"d", "i", "m", "m", "_", "s", "c", "_", "1", "0",
                          "x", "_">>)
                \o <<Group(OneOrMore(WordClass), 1)>>,
        replacement |->
            FunctionReplacement(<<
                Text(<<"3", prime, " ", "(">>),
                GroupText(1),
                Text(<<")">>)>>)],
       \* "gtex": "GTEx"
       [pattern |->
            Literal(<<"g", "t", "e", "x">>),
        replacement |->
            StringReplacement(
            <<"G", "T", "E", "x">>)],
       \* r"mnist_(\w+)": "MNIST ({})".format(match.group(1))
       [pattern |->
            Literal(<<"m", "n", "i", "s", "t", "_">>)
                \o <<Group(OneOrMore(WordClass), 1)>>,
        replacement |->
            FunctionReplacement(<<
                Text(<<"M", "N", "I", "S", "T", " ", "(">>),
                GroupText(1),
                Text(<<")">>)>>)],
       \* r"sample_?(sparse)?": "Sample" if len(match.groups()) == 1 else ...;
       \* the pattern has one group, so match.groups() has one member
       [pattern |->
            Literal(<<"s", "a", "m", "p", "l", "e">>)
                \o <<Optional(Once({"_"})),
                     Group(Optional(Word(<<"s", "p", "a", "r", "s", "e">>)), 1)>>,
        replacement |->
            FunctionReplacement(<<
                Text(<<"S", "a", "m", "p", "l", "e">>)>>)],
       \* "tcga_kallisto": "TCGA (Kallisto)"
       [pattern |->
            Literal(<<"t", "c", "g", "a", "_", "k", "a", "l", "l", "i",
                          "s", "t", "o">>),
        replacement |->
            StringReplacement(
            <<"T", "C", "G", "A", " ", "(", "K", "a", "l", "l", "i", "s",
              "t", "o", ")">>)]
    >>

\* split_replacements
split_replacements ==
    <<
       \* r"split-(\w+)_(0\.\d+)": "{} split ({:.3g} %)".format(
       \*      match.group(1), 100 * float(match.group(2)))
       [pattern |->
            Literal(<<"s", "p", "l", "i", "t", "-">>)
                \o <<Group(OneOrMore(WordClass), 1), Once({"_"}),
                     Group(Once({"0"}), 2), Group(Once({"."}), 2),
                     Group(OneOrMore(DigitClass), 2)>>,
        replacement |->
            FunctionReplacement(<<
                GroupText(1),
                Text(<<" ", "s", "p", "l", "i", "t", " ", "(">>),
                GroupPercent(2),
                Text(<<" ", "%", ")">>)>>)]
    >>

\* feature_replacements
feature_replacements ==
    <<
       \* "features_mapped": "feature mapping"
       [pattern |->
            Literal(<<"f", "e", "a", "t", "u", "r", "e", "s", "_", "m",
                          "a", "p", "p", "e", "d">>),
        replacement |->
            StringReplacement(
            <<"f", "e", "a", "t", "u", "r", "e", " ", "m", "a", "p", "p",
              "i", "n", "g">>)],
       \* r"keep_gini_indices_above_([\d.]+)"
       [pattern |->
            Literal(<<"k", "e", "e", "p", "_", "g", "i", "n", "i", "_",
                          "i", "n", "d", "i", "c", "e", "s", "_", "a", "b",
                          "o", "v", "e", "_">>)
                \o <<Group(OneOrMore(DigitDotClass), 1)>>,
        replacement |->
            FunctionReplacement(<<
                Text(<<"f", "e", "a", "t", "u", "r", "e", "s", " ", "w",
                        "i", "t", "h", " ", "G", "i", "n", "i", " ", "i",
                        "n", "d", "e", "x", " ", "a", "b", "o", "v", "e",
                        " ">>),
                GroupIntOfFloat(1)>>)],
       \* r"keep_highest_gini_indices_([\d.]+)"
       [pattern |->
            Literal(<<"k", "e", "e", "p", "_", "h", "i", "g", "h", "e",
                          "s", "t", "_", "g", "i", "n", "i", "_", "i", "n",
                          "d", "i", "c", "e", "s", "_">>)
                \o <<Group(OneOrMore(DigitDotClass), 1)>>,
        replacement |->
            FunctionReplacement(<<
                Text(<<" ">>),
                GroupIntOfFloat(1),
                Text(<<" ", "f", "e", "a", "t", "u", "r", "e", "s", " ",
                        "w", "i", "t", "h", " ", "h", "i", "g", "h", "e",
                        "s", "t", " ", "G", "i", "n", "i", " ", "i", "n",
                        "d", "i", "c", "e", "s">>)>>)],
       \* r"keep_variances_above_([\d.]+)"
       [pattern |->
            Literal(<<"k", "e", "e", "p", "_", "v", "a", "r", "i", "a",
                          "n", "c", "e", "s", "_", "a", "b", "o", "v", "e",
                          "_">>)
                \o <<Group(OneOrMore(DigitDotClass), 1)>>,
        replacement |->
            FunctionReplacement(<<
                Text(<<"f", "e", "a", "t", "u", "r", "e", "s", " ", "w",
                        "i", "t", "h", " ", "v", "a", "r", "i", "a", "n",
                        "c", "e", " ", "a", "b", "o", "v", "e", " ">>),
                GroupIntOfFloat(1)>>)],
       \* r"keep_highest_variances_([\d.]+)"
       [pattern |->
            Literal(<<"k", "e", "e", "p", "_", "h", "i", "g", "h", "e",
                          "s", "t", "_", "v", "a", "r", "i", "a", "n", "c",
                          "e", "s", "_">>)
                \o <<Group(OneOrMore(DigitDotClass), 1)>>,
        replacement |->
            FunctionReplacement(<<
                GroupIntOfFloat(1),
                Text(<<" ", "m", "o", "s", "t", " ", "v", "a", "r", "y",
                        "i", "n", "g", " ", "f", "e", "a", "t", "u", "r",
                        "e", "s">>)>>)]
    >>

\* example_feaute_replacements
example_feaute_replacements ==
    <<
       \* "macosko": "Macosko"
       [pattern |->
            Literal(<<"m", "a", "c", "o", "s", "k", "o">>),
        replacement |->
            StringReplacement(
            <<"M", "a", "c", "o", "s", "k", "o">>)],
       \* "remove_zeros": "examples with only zeros removed"
       [pattern |->
            Literal(<<"r", "e", "m", "o", "v", "e", "_", "z", "e", "r",
                          "o", "s">>),
        replacement |->
            StringReplacement(
            <<"e", "x", "a", "m", "p", "l", "e", "s", " ", "w", "i", "t",
              "h", " ", "o", "n", "l", "y", " ", "z", "e", "r", "o", "s",
              " ", "r", "e", "m", "o", "v", "e", "d">>)],
       \* r"remove_count_sum_above_([\d.]+)"
       [pattern |->
            Literal(<<"r", "e", "m", "o", "v", "e", "_", "c", "o", "u",
                          "n", "t", "_", "s", "u", "m", "_", "a", "b", "o",
                          "v", "e", "_">>)
                \o <<Group(OneOrMore(DigitDotClass), 1)>>,
        replacement |->
            FunctionReplacement(<<
                Text(<<"e", "x", "a", "m", "p", "l", "e", "s", " ", "w",
                        "i", "t", "h", " ", "c", "o", "u", "n", "t", " ",
                        "s", "u", "m", " ", "a", "b", "o", "v", "e", " ">>),
                GroupIntOfFloat(1),
                Text(<<" ", "r", "e", "m", "o", "v", "e", "d">>)>>)]
    >>

\* example_replacements
example_replacements ==
    <<
       \* r"keep_(\w+)": "{} examples".format(match.group(1).replace("_", ", "))
       [pattern |->
            Literal(<<"k", "e", "e", "p", "_">>)
                \o <<Group(OneOrMore(WordClass), 1)>>,
        replacement |->
            FunctionReplacement(<<
                GroupCommas(1),
                Text(<<" ", "e", "x", "a", "m", "p", "l", "e", "s">>)>>)],
       \* r"remove_(\w+)": "{} examples removed".format(...)
       [pattern |->
            Literal(<<"r", "e", "m", "o", "v", "e", "_">>)
                \o <<Group(OneOrMore(WordClass), 1)>>,
        replacement |->
            FunctionReplacement(<<
                GroupCommas(1),
                Text(<<" ", "e", "x", "a", "m", "p", "l", "e", "s", " ",
                        "r", "e", "m", "o", "v", "e", "d">>)>>)],
       \* "excluded_classes": "excluded classes removed"
       [pattern |->
            Literal(<<"e", "x", "c", "l", "u", "d", "e", "d", "_", "c",
                          "l", "a", "s", "s", "e", "s">>),
        replacement |->
            StringReplacement(
            <<"e", "x", "c", "l", "u", "d", "e", "d", " ", "c", "l", "a",
              "s", "s", "e", "s", " ", "r", "e", "m", "o", "v", "e", "d">>)]
    >>

\* preprocessing_replacements
preprocessing_replacements ==
    <<
       \* "gini": "Gini indices"
       [pattern |->
            Literal(<<"g", "i", "n", "i">>),
        replacement |->
            StringReplacement(
            <<"G", "i", "n", "i", " ", "i", "n", "d", "i", "c", "e", "s">>)],
       \* "idf": "IDF"
       [pattern |->
            Literal(<<"i", "d", "f">>),
        replacement |->
            StringReplacement(
            <<"I", "D", "F">>)]
    >>

\* A slip: the preprocessing and the example tables before the others.
DataSetReplacementDictionariesLastFirst ==
    <<preprocessing_replacements, example_replacements,
      data_set_name_replacements, split_replacements, feature_replacements,
      example_feaute_replacements>>

\* titleFromDataSetName: replacement_dictionaries
DataSetReplacementDictionaries ==
    <<data_set_name_replacements, split_replacements, feature_replacements,
      example_feaute_replacements, example_replacements,
      preprocessing_replacements>>

\* The data set names titles are made of.
ExampleDataSetName ==
    <<"m", "n", "i", "s", "t", "_", "b", "i", "n", "a", "r", "i", "s", "e",
      "d", "-", "s", "p", "l", "i", "t", "-", "t", "r", "a", "i", "n", "_",
      "0", ".", "8", "-", "k", "e", "e", "p", "_", "g", "i", "n", "i", "_",
      "i", "n", "d", "i", "c", "e", "s", "_", "a", "b", "o", "v", "e", "_",
      "0", ".", "5">>

DataSetNames ==
    {ExampleDataSetName,
     \* "mnist_gini-split-test_0.125"
     <<"m", "n", "i", "s", "t", "_", "g", "i", "n", "i", "-", "s", "p", "l",
       "i", "t", "-", "t", "e", "s", "t", "_", "0", ".", "1", "2", "5">>,
     \* "sample_sparse/keep_highest_variances_5000"
     <<"s", "a", "m", "p", "l", "e", "_", "s", "p", "a", "r", "s", "e", "/",
       "k", "e", "e", "p", "_", "h", "i", "g", "h", "e", "s", "t", "_", "v",
       "a", "r", "i", "a", "n", "c", "e", "s", "_", "5", "0", "0", "0">>,
     \* "gtex-keep_gini_indices_above_0.5.1"
     <<"g", "t", "e", "x", "-", "k", "e", "e", "p", "_", "g", "i", "n", "i",
       "_", "i", "n", "d", "i", "c", "e", "s", "_", "a", "b", "o", "v", "e",
       "_", "0", ".", "5", ".", "1">>,
     \* "10x_20k-remove_zeros-idf"
     <<"1", "0", "x", "_", "2", "0", "k", "-", "r", "e", "m", "o", "v", "e",
       "_", "z", "e", "r", "o", "s", "-", "i", "d", "f">>,
     \* "tcga_kallisto-keep_a_b-split-train_0.8-split-test_0.25"
     <<"t", "c", "g", "a", "_", "k", "a", "l", "l", "i", "s", "t", "o", "-",
       "k", "e", "e", "p", "_", "a", "_", "b", "-", "s", "p", "l", "i", "t",
       "-", "t", "r", "a", "i", "n", "_", "0", ".", "8", "-", "s", "p", "l",
       "i", "t", "-", "t", "e", "s", "t", "_", "0", ".", "2", "5">>,
     \* "mnist_\u00e9-keep_variances_above_9007199254740993", of a letter
     \* outside ASCII and a number that is no double
     <<"m", "n", "i", "s", "t", "_", "U+00E9", "-", "k", "e", "e", "p", "_",
       "v", "a", "r", "i", "a", "n", "c", "e", "s", "_", "a", "b", "o", "v",
       "e", "_", "9", "0", "0", "7", "1", "9", "9", "2", "5", "4", "7", "4",
       "0", "9", "9", "3">>,
     \* "split-\u00e9_0.\u0668", of an Arabic-Indic digit
     <<"s", "p", "l", "i", "t", "-", "U+00E9", "_", "0", ".", "U+0668">>,
     \* "remove_count_sum_above_" and 310 nines, a number above every double
     <<"r", "e", "m", "o", "v", "e", "_", "c", "o", "u", "n", "t", "_", "s",
       "u", "m", "_", "a", "b", "o", "v", "e", "_">>
        \o [k \in 1..310 |-> "9"]}

\* titleFromDataSetName(name): titleFromName is called with the six tables.
TitleFromDataSetName ==
    /\ tn.pc = "titleFromDataSetName"
    /\ tn' = [pc |-> "call", given |-> tn.name, name |-> tn.name,
              replacement_dictionaries |->
                [type |-> "list", value |-> DataSetReplacementDictionaries],
              calls |-> <<>>]
    /\ UNCHANGED <<ms, walk, test_metrics_set, bv, model_IDs, ids, run>>

\* ----------------------------------------------------- titleFromModelName

\* reorder_replacements
reorder_replacements ==
    <<
       \* r"(-sum)(-l_\d+-h_[\d_]+)": "".join(reversed(match.groups()))
       [pattern |->
            <<Group(Word(<<"-", "s", "u", "m">>), 1),
              Group(Word(<<"-", "l", "_">>), 2),
              Group(OneOrMore(DigitClass), 2),
              Group(Word(<<"-", "h", "_">>), 2),
              Group(OneOrMore(With(DigitClass, {"_"})), 2)>>,
        replacement |->
            FunctionReplacement(
                <<GroupText(2),
                  GroupText(1)>>)]
    >>

\* model_replacements
model_replacements ==
    <<
       \* r"GMVAE/gaussian_mixture-c_(\d+)-?p?_?(\w+)?": "GMVAE({})" if not
       \* match.group(2) else "GMVAE({}; {})".format(*match.groups())
       [pattern |->
            Literal(<<"G", "M", "V", "A", "E", "/", "g", "a", "u", "s",
                          "s", "i", "a", "n", "_", "m", "i", "x", "t", "u",
                          "r", "e", "-", "c", "_">>)
                \o <<Group(OneOrMore(DigitClass), 1),
                     Optional(Once({"-"})),
                     Optional(Once({"p"})),
                     Optional(Once({"_"})),
                     Group(Optional(OneOrMore(WordClass)), 2)>>,
        replacement |->
            ConditionalReplacement(
                NotGroup(2),
                <<Text(<<"G", "M", "V", "A", "E", "(">>),
                  GroupText(1),
                  Text(<<")">>)>>,
                <<Text(<<"G", "M", "V", "A", "E", "(">>),
                  GroupText(1),
                  Text(<<";", " ">>),
                  GroupText(2),
                  Text(<<")">>)>>)],
       \* r"VAE/([\w-]+)": "VAE({})".format(match.group(1))
       [pattern |->
            Literal(<<"V", "A", "E", "/">>)
                \o <<Group(OneOrMore(With(WordClass, {"-"})), 1)>>,
        replacement |->
            FunctionReplacement(
                <<Text(<<"V", "A", "E", "(">>),
                  GroupText(1),
                  Text(<<")">>)>>)],
       \* "-parameterised": ", PLP"
       [pattern |->
            Literal(<<"-", "p", "a", "r", "a", "m", "e", "t", "e", "r",
                          "i", "s", "e", "d">>),
        replacement |->
            StringReplacement(
            <<",", " ", "P", "L", "P">>)],
       \* r"-ia_(\w+)-ga_(\w+)": ", {}" if match.group(1) == match.group(2)
       \* else ", i: {}, g: {}".format(*match.group(1, 2))
       [pattern |->
            Literal(<<"-", "i", "a", "_">>)
                \o <<Group(OneOrMore(WordClass), 1)>>
                \o Literal(<<"-", "g", "a", "_">>)
                \o <<Group(OneOrMore(WordClass), 2)>>,
        replacement |->
            ConditionalReplacement(
                GroupsEqual,
                <<Text(<<",", " ">>),
                  GroupText(1)>>,
                <<Text(<<",", " ", "i", ":", " ">>),
                  GroupText(1),
                  Text(<<",", " ", "g", ":", " ">>),
                  GroupText(2)>>)]
    >>

\* secondary_model_replacements
secondary_model_replacements ==
    <<
       \* r"gaussian_mixture-c_(\d+)": "GM({})".format(match.group(1))
       [pattern |->
            Literal(<<"g", "a", "u", "s", "s", "i", "a", "n", "_", "m",
                          "i", "x", "t", "u", "r", "e", "-", "c", "_">>)
                \o <<Group(OneOrMore(DigitClass), 1)>>,
        replacement |->
            FunctionReplacement(
                <<Text(<<"G", "M", "(">>),
                  GroupText(1),
                  Text(<<")">>)>>)],
       \* r"-ia_(\w+)": ", i: {}".format(match.group(1))
       [pattern |->
            Literal(<<"-", "i", "a", "_">>)
                \o <<Group(OneOrMore(WordClass), 1)>>,
        replacement |->
            FunctionReplacement(
                <<Text(<<",", " ", "i", ":", " ">>),
                  GroupText(1)>>)],
       \* r"-ga_(\w+)": ", g: {}".format(match.group(1))
       [pattern |->
            Literal(<<"-", "g", "a", "_">>)
                \o <<Group(OneOrMore(WordClass), 1)>>,
        replacement |->
            FunctionReplacement(
                <<Text(<<",", " ", "g", ":", " ">>),
                  GroupText(1)>>)]
    >>

\* distribution_modification_replacements
distribution_modification_replacements ==
    <<
       \* "constrained_poisson": "CP"
       [pattern |->
            Literal(<<"c", "o", "n", "s", "t", "r", "a", "i", "n", "e",
                          "d", "_", "p", "o", "i", "s", "s", "o", "n">>),
        replacement |->
            StringReplacement(
            <<"C", "P">>)],
       \* "zero_inflated_": "ZI"
       [pattern |->
            Literal(<<"z", "e", "r", "o", "_", "i", "n", "f", "l", "a",
                          "t", "e", "d", "_">>),
        replacement |->
            StringReplacement(
            <<"Z", "I">>)],
       \* r"/(\w+)-k_(\d+)": "/PC{}({})".format(match.group(1), match.group(2))
       [pattern |->
            Literal(<<"/">>)
                \o <<Group(OneOrMore(WordClass), 1)>>
                \o Literal(<<"-", "k", "_">>)
                \o <<Group(OneOrMore(DigitClass), 2)>>,
        replacement |->
            FunctionReplacement(
                <<Text(<<"/", "P", "C">>),
                  GroupText(1),
                  Text(<<"(">>),
                  GroupText(2),
                  Text(<<")">>)>>)]
    >>

\* distribution_replacements
distribution_replacements ==
    <<
       \* "gaussian": "G"
       [pattern |->
            Literal(<<"g", "a", "u", "s", "s", "i", "a", "n">>),
        replacement |->
            StringReplacement(
            <<"G">>)],
       \* "bernoulli": "B"
       [pattern |->
            Literal(<<"b", "e", "r", "n", "o", "u", "l", "l", "i">>),
        replacement |->
            StringReplacement(
            <<"B">>)],
       \* "poisson": "P"
       [pattern |->
            Literal(<<"p", "o", "i", "s", "s", "o", "n">>),
        replacement |->
            StringReplacement(
            <<"P">>)],
       \* "negative_binomial": "NB"
       [pattern |->
            Literal(<<"n", "e", "g", "a", "t", "i", "v", "e", "_", "b",
                          "i", "n", "o", "m", "i", "a", "l">>),
        replacement |->
            StringReplacement(
            <<"N", "B">>)],
       \* "lomax": "L"
       [pattern |->
            Literal(<<"l", "o", "m", "a", "x">>),
        replacement |->
            StringReplacement(
            <<"L">>)],
       \* "pareto": "Pa"
       [pattern |->
            Literal(<<"p", "a", "r", "e", "t", "o">>),
        replacement |->
            StringReplacement(
            <<"P", "a">>)]
    >>

\* network_replacements
network_replacements ==
    <<
       \* r"l_(\d+)-h_([\d_]+)": "{}×{}".format(
       \*      match.group(2).replace("_", "\u00d7"), match.group(1))
       [pattern |->
            Literal(<<"l", "_">>)
                \o <<Group(OneOrMore(DigitClass), 1)>>
                \o Literal(<<"-", "h", "_">>)
                \o <<Group(OneOrMore(With(DigitClass, {"_"})), 2)>>,
        replacement |->
            FunctionReplacement(
                <<GroupTimes(2),
                  Text(<<times>>),
                  GroupText(1)>>)]
    >>

\* sample_replacements
sample_replacements ==
    <<
       \* r"-mc_(\d+)": "" if int(match.group(1)) == 1 else
       \*      "-{} MC samples".format(match.groups(1))
       [pattern |->
            Literal(<<"-", "m", "c", "_">>)
                \o <<Group(OneOrMore(DigitClass), 1)>>,
        replacement |->
            ConditionalReplacement(
                GroupIsOne(1),
                <<Text(<<>>)>>,
                <<Text(<<"-">>),
                  GroupsTuple(1),
                  Text(<<" ", "M", "C", " ", "s", "a", "m", "p", "l", "e",
                          "s">>)>>)],
       \* r"-iw_(\d+)": "" if int(match.group(1)) == 1 else
       \*      "-{} IW samples".format(match.groups(1))
       [pattern |->
            Literal(<<"-", "i", "w", "_">>)
                \o <<Group(OneOrMore(DigitClass), 1)>>,
        replacement |->
            ConditionalReplacement(
                GroupIsOne(1),
                <<Text(<<>>)>>,
                <<Text(<<"-">>),
                  GroupsTuple(1),
                  Text(<<" ", "I", "W", " ", "s", "a", "m", "p", "l", "e",
                          "s">>)>>)]
    >>

\* model_version_replacements
model_version_replacements ==
    <<
       \* r"e_(\d+)-?(\w+)?": "{} epochs".format(match.group(1)) if not
       \* match.group(2) else "{} epochs ({})".format(match.group(1),
       \* match.group(2))
       [pattern |->
            Literal(<<"e", "_">>)
                \o <<Group(OneOrMore(DigitClass), 1),
                     Optional(Once({"-"})),
                     Group(Optional(OneOrMore(WordClass)), 2)>>,
        replacement |->
            ConditionalReplacement(
                NotGroup(2),
                <<GroupText(1),
                  Text(<<" ", "e", "p", "o", "c", "h", "s">>)>>,
                <<GroupText(1),
                  Text(<<" ", "e", "p", "o", "c", "h", "s", " ", "(">>),
                  GroupText(2),
                  Text(<<")">>)>>)],
       \* "best_model": "*"
       [pattern |->
            Literal(<<"b", "e", "s", "t", "_", "m", "o", "d", "e", "l">>),
        replacement |->
            StringReplacement(
            <<"*">>)],
       \* "early_stopping": "ES"
       [pattern |->
            Literal(<<"e", "a", "r", "l", "y", "_", "s", "t", "o", "p",
                          "p", "i", "n", "g">>),
        replacement |->
            StringReplacement(
            <<"E", "S">>)]
    >>

\* miscellaneous_replacements
miscellaneous_replacements ==
    <<
       \* "sum": "CS"
       [pattern |->
            Literal(<<"s", "u", "m">>),
        replacement |->
            StringReplacement(
            <<"C", "S">>)],
       \* "-kl": ""
       [pattern |->
            Literal(<<"-", "k", "l">>),
        replacement |->
            StringReplacement(<<>>)],
       \* "bn": "BN"
       [pattern |->
            Literal(<<"b", "n">>),
        replacement |->
            StringReplacement(
            <<"B", "N">>)],
       \* r"dropout_([\d._]+)": "dropout: {}".format(
       \*      match.group(1).replace("_", ", "))
       [pattern |->
            Literal(<<"d", "r", "o", "p", "o", "u", "t", "_">>)
                \o <<Group(OneOrMore(With(DigitDotClass, {"_"})), 1)>>,
        replacement |->
            FunctionReplacement(
                <<Text(<<"d", "r", "o", "p", "o", "u", "t", ":", " ">>),
                  GroupCommas(1)>>)],
       \* r"wu_(\d+)": "WU({})".format(match.group(1))
       [pattern |->
            Literal(<<"w", "u", "_">>)
                \o <<Group(OneOrMore(DigitClass), 1)>>,
        replacement |->
            FunctionReplacement(
                <<Text(<<"W", "U", "(">>),
                  GroupText(1),
                  Text(<<")">>)>>)]
    >>

\* titleFromModelName: replacement_dictionaries
ModelReplacementDictionaries ==
    <<reorder_replacements, model_replacements, secondary_model_replacements,
      distribution_modification_replacements, distribution_replacements,
      network_replacements, sample_replacements, model_version_replacements,
      miscellaneous_replacements>>

RECURSIVE EntriesOf(_)
\* The entries the two loops of titleFromName pass, in their order.
EntriesOf(replacement_dictionaries) ==
    IF replacement_dictionaries = <<>> THEN <<>>
    ELSE Head(replacement_dictionaries)
            \o EntriesOf(Tail(replacement_dictionaries))

RECURSIVE ApplyEntriesBetween(_, _, _, _)
\* The passes lo..hi of the two loops of titleFromName on what the passes
\* before them left: the name after them, or the exception of the first
\* entry that raises one.
AppliedOrRaised(entry, name, error) ==
    IF error # "None" THEN [raised |-> TRUE, error |-> error]
    ELSE [raised |-> FALSE, value |-> ApplyEntry(entry, name)]

ApplyEntriesBetween(entries, lo, hi, before) ==
    IF before.raised \/ lo > hi THEN before
    ELSE IF lo < hi
        THEN ApplyEntriesBetween(
                entries, (lo + hi) \div 2 + 1, hi,
                ApplyEntriesBetween(entries, lo, (lo + hi) \div 2, before))
    ELSE AppliedOrRaised(entries[lo], before.value,
                         EntryError(entries[lo], before.value))

\* The two loops of titleFromName as one computation.
ApplyEntries(entries, name) ==
    ApplyEntriesBetween(entries, 1, Len(entries),
                        [raised |-> FALSE, value |-> name])

\* titleFromName(name, replacement_dictionaries) for a list of tables, as
\* the callers in main take it: the title returned or the exception raised.
Punctuated(after) ==
    IF after.raised THEN after
    ELSE [raised |-> FALSE,
          value |-> StrReplace(
                        StrReplace(
                            StrReplace(after.value, <<"/">>, <<";", " ">>),
                            <<"-">>, <<";", " ">>),
                        <<"_">>, <<" ">>)]

titleFromName(name, replacement_dictionaries) ==
    Punctuated(ApplyEntries(EntriesOf(replacement_dictionaries), name))

titleFromDataSetName(name) ==
    titleFromName(name, DataSetReplacementDictionaries)

titleFromModelName(name) == titleFromName(name, ModelReplacementDictionaries)

\* ------------------------------------------ testMetricsInResultsDirectory

test_metrics_basename ==
    <<"t", "e", "s", "t", "-", "m", "e", "t", "r", "i", "c", "s">>

test_prediction_basename ==
    <<"t", "e", "s", "t", "-", "p", "r", "e", "d", "i", "c", "t", "i",
      "o", "n">>

zipped_pickle_extension ==
    <<".", "p", "k", "l", ".", "g", "z">>

\* os.sep
sep == <<"/">>

StartsWith(s, prefix) ==
    Len(s) >= Len(prefix) /\ SubSeq(s, 1, Len(prefix)) = prefix

EndsWith(s, suffix) ==
    Len(s) >= Len(suffix)
        /\ SubSeq(s, Len(s) - Len(suffix) + 1, Len(s)) = suffix

\* s.split(c) for a one-character separator: the pieces between the
\* separators, empty ones kept; "".split(c) is [""].
SplitOn(s, c) == SplitAt(s, c, Occurrences(s, c)) \o <<>>

RECURSIVE Join(_, _)
\* c.join(parts)
Join(c, parts) ==
    IF parts = <<>> THEN <<>>
    ELSE IF Len(parts) = 1 THEN parts[1]
    ELSE parts[1] \o c \o Join(c, Tail(parts))

\* os.path.join(path, name) for a relative name.
PathJoin(path, name) ==
    IF path = <<>> \/ EndsWith(path, sep) THEN path \o name
    ELSE path \o sep \o name

\* `d[key] = value` on an insertion-ordered dict: a known key keeps its
\* place, a new key goes last.
DictSet(d, key, value) ==
    IF \E i \in 1..Len(d) : d[i][1] = key
        THEN [i \in 1..Len(d) |->
                IF d[i][1] = key THEN <<key, value>> ELSE d[i]]
        ELSE Append(d, <<key, value>>)

\* `filename in filenames`
InList(x, list) == \E i \in 1..Len(list) : list[i] = x

\* A slip: the extension is not asked for, only the basename.
IsPredictionFileByPrefix(filename) ==
    StartsWith(filename, test_prediction_basename)

\* `filename.startswith(test_prediction_basename)
\*      and filename.endswith(zipped_pickle_extension)`
IsPredictionFile(filename) ==
    /\ StartsWith(filename, test_prediction_basename)
    /\ EndsWith(filename, zipped_pickle_extension)

\* The name of a prediction: the file name without every occurrence of the
\* extension, then of the basename, then of "-".
PredictionName(filename) ==
    StrReplace(
        StrReplace(
            StrReplace(filename, zipped_pickle_extension, <<>>),
            test_prediction_basename, <<>>),
        <<"-">>, <<>>)

\* What pickle.load returns for the file of that name in the directory,
\* whose files are the dict `files` of name and content.
PickleLoad(files, filename) ==
    files[CHOOSE i \in 1..Len(files) : files[i][1] = filename][2]

RECURSIVE Predictions(_, _, _)
\* The loop over filenames that fills `predictions`.
Predictions(predictions, filenames, files) ==
    IF filenames = <<>> THEN predictions
    ELSE Predictions(
            IF IsPredictionFile(Head(filenames))
                THEN DictSet(predictions, PredictionName(Head(filenames)),
                             PickleLoad(files, Head(filenames)))
                ELSE predictions,
            Tail(filenames), files)

\* data_set_model = path.replace(results_directory, "")
DataSetModelParts(path, results_directory) ==
    SplitOn(StrReplace(path, results_directory, <<>>), sep)

\* data_set = os.sep.join(data_set_model_parts[:3])
DataSetOf(parts) ==
    Join(sep, SubSeq(parts, 1, IF Len(parts) < 3 THEN Len(parts) ELSE 3))

\* model = os.sep.join(data_set_model_parts[3:])
ModelOf(parts) == Join(sep, SubSeq(parts, 4, Len(parts)))

\* Whether the loop body gets past its two `continue`s and finds the
\* metrics file.
Kept(path, filenames, args) ==
    LET parts == DataSetModelParts(path, args.results_directory) IN
    /\ Truthy(matchString(DataSetOf(parts),
                          args.data_set_included_strings,
                          args.data_set_excluded_strings))
    /\ Truthy(matchString(ModelOf(parts),
                          args.model_included_strings,
                          args.model_excluded_strings))
    /\ InList(test_metrics_basename \o zipped_pickle_extension, filenames)

\* The body of `for path, _, filenames in os.walk(results_directory):` for
\* one directory: the mapping after it.  The metrics loaded are a record,
\* which `test_metrics_data["predictions"] = predictions` sets a field of.
ScanDirectory(set, path, filenames, files, args) ==
    LET parts == DataSetModelParts(path, args.results_directory)
        data_set == DataSetOf(parts)
        model == ModelOf(parts)
        test_metrics_filename ==
            test_metrics_basename \o zipped_pickle_extension
        with_data_set ==
            IF ~Lookup(set, data_set).ok
                THEN DictSet(set, data_set, <<>>) ELSE set
        test_metrics_data == PickleLoad(files, test_metrics_filename)
        predictions == Predictions(<<>>, filenames, files)
    IN  IF ~Kept(path, filenames, args) THEN set
        ELSE DictSet(with_data_set, data_set,
                DictSet(Lookup(with_data_set, data_set).value, model,
                    IF predictions # <<>>
                        THEN [predictions |-> predictions]
                                @@ test_metrics_data
                        ELSE test_metrics_data))

\* The files of a directory of the scans: what a file holds is written as
\* the file's path.
FilesNamed(path, filenames) ==
    [k \in 1..Len(filenames) |->
        <<filenames[k], [file |-> PathJoin(path, filenames[k])]>>]

\* The results directory of the scans, as main hands it over:
\* os.path.normpath(results_directory) + os.sep, here for "r".
ResultsDirectory == <<"r", "/">>

\* The directories there may be below the results directory: the names of
\* the subdirectories a directory may have.
SubdirectoryNames(path) ==
    CASE path = <<"r", "/">> -> {<<"a">>}
      [] path = <<"r", "/", "a">> -> {<<"b">>}
      [] path = <<"r", "/", "a", "/", "b">> -> {<<"c">>}
      [] path = <<"r", "/", "a", "/", "b", "/", "c">> -> {<<"m">>, <<"r">>}
      [] path = <<"r", "/", "a", "/", "b", "/", "c", "/", "r">> -> {<<"m">>}
      [] OTHER -> {}

\* The files a directory may hold, in the order os.walk lists them.
FileMetrics == test_metrics_basename \o zipped_pickle_extension

FilePredictionA ==
    test_prediction_basename \o <<"-", "a">> \o zipped_pickle_extension

FilePredictionAJoined ==
    test_prediction_basename \o <<"a">> \o zipped_pickle_extension

FilePredictionB ==
    test_prediction_basename \o <<"-", "b">> \o zipped_pickle_extension

FilePredictionLog == test_prediction_basename \o <<"-", "b", ".", "l", "o", "g">>

FileOther ==
    <<"x", "-">> \o test_prediction_basename \o zipped_pickle_extension

Listings ==
    {<<>>,
     <<FileMetrics>>,
     <<FileMetrics, FilePredictionA, FilePredictionB>>,
     <<FilePredictionA, FileMetrics, FilePredictionAJoined>>,
     <<FilePredictionA, FilePredictionB>>,
     <<FilePredictionLog, FileMetrics, FilePredictionB, FileOther,
       FilePredictionA>>}

\* The listings tried in a directory: above the data-set directories, no
\* file or the metrics file alone.
ListingsIn(path) ==
    IF Len(path) < Len(<<"r", "/", "a", "/", "b", "/", "c">>)
        THEN {<<>>, <<FileMetrics>>}
        ELSE Listings

\* The filter lists of the scans.
NoFilter ==
    [results_directory |-> ResultsDirectory,
     data_set_included_strings |-> <<>>,
     data_set_excluded_strings |-> <<>>,
     model_included_strings |-> <<>>,
     model_excluded_strings |-> <<>>]

ScanArguments ==
    {NoFilter,
     [NoFilter EXCEPT !.data_set_included_strings = << <<"a">> >>],
     [NoFilter EXCEPT !.data_set_excluded_strings = << <<"c">> >>],
     [NoFilter EXCEPT !.model_included_strings = << <<"m">> >>],
     [NoFilter EXCEPT !.model_excluded_strings = << <<"m">> >>],
     [NoFilter EXCEPT !.model_included_strings = << <<"r">> >>],
     [NoFilter EXCEPT !.data_set_included_strings = << <<"b">>, <<"c">> >>,
                      !.model_excluded_strings = << <<"r">> >>]}

\* The orders in which os.walk may list a set of subdirectories.
Orders(S) ==
    {order \in [1..Cardinality(S) -> S] :
        \A i, j \in 1..Cardinality(S) : i # j => order[i] # order[j]}

\* One pass of the loop over os.walk: the next directory, top down, with
\* the files it lists and its subdirectories, which are walked before the
\* directories still pending.
WalkDirectory ==
    /\ walk.pc = "walk"
    /\ walk.pending # <<>>
    /\ LET path == Head(walk.pending) IN
       \E filenames \in ListingsIn(path) :
       \E names \in SUBSET SubdirectoryNames(path) :
       \E dirnames \in Orders(names) :
            /\ test_metrics_set' =
                    ScanDirectory(test_metrics_set, path, filenames,
                                  FilesNamed(path, filenames), walk.args)
            /\ walk' = [walk EXCEPT
                    !.pending =
                        [i \in 1..Len(dirnames) |-> PathJoin(path, dirnames[i])]
                            \o Tail(walk.pending),
                    !.last = [path |-> path, filenames |-> filenames],
                    !.metrics_found =
                        IF InList(FileMetrics, filenames)
                            THEN @ \cup {path} ELSE @]
    /\ UNCHANGED <<ms, bv, model_IDs, ids, run, tn>>

\* os.walk is used up: `return test_metrics_set`.
WalkReturn ==
    /\ walk.pc = "walk"
    /\ walk.pending = <<>>
    /\ walk' = [walk EXCEPT !.pc = "done"]
    /\ UNCHANGED <<ms, test_metrics_set, bv, model_IDs, ids, run, tn>>

\* ------------------------------------------------------ main: Python values

\* The values a test metric or a comparison field can hold: None, a str, a
\* float (a fraction num / den, or one of nan, inf and -inf), a list, a
\* dict where another type may be in its place, and a numpy.float32, which
\* is a number and no instance of float.  PyInt and PyBool are the ints.
PyNone == [type |-> "NoneType"]

PyStr(s) == [type |-> "str", val |-> s]

PyFloat(num, den) == [type |-> "float", num |-> num, den |-> den]

PyFloat32(num, den) == [type |-> "numpy.float32", num |-> num, den |-> den]

\* float("nan"), math.inf and -math.inf
PyNaN == [type |-> "float", nan |-> TRUE]

inf == [type |-> "float", infinite |-> TRUE]

negative_inf == [type |-> "float", infinite |-> TRUE, negative |-> TRUE]

PyList(items) == [type |-> "list", val |-> items]

PyDict(items) == [type |-> "dict", val |-> items]

\* isinstance(v, type): bool is a subclass of int.
IsInstance(v, type) ==
    IF type = "int" THEN v.type \in {"int", "bool"} ELSE v.type = type

IsNumber(v) == v.type \in {"float", "numpy.float32", "int", "bool"}

\* The floats that are no fractions
IsNaN(v) == v.type \in {"float", "numpy.float32"} /\ "nan" \in DOMAIN v

IsInfinite(v) ==
    v.type \in {"float", "numpy.float32"} /\ "infinite" \in DOMAIN v

IsFinite(v) == ~IsNaN(v) /\ ~IsInfinite(v)

Numerator(v) == IF v.type \in {"int", "bool"} THEN v.val ELSE v.num

Denominator(v) == IF v.type \in {"int", "bool"} THEN 1 ELSE v.den

\* Where a number that is not nan stands among the fractions: -inf below
\* and inf above them all.
Side(v) ==
    IF ~IsInfinite(v) THEN 0
    ELSE IF "negative" \in DOMAIN v THEN 0 - 1
    ELSE 1

IsNegative(v) ==
    IF IsNaN(v) THEN FALSE
    ELSE IF IsInfinite(v) THEN Side(v) < 0
    ELSE Numerator(v) < 0

\* a < b and a == b on numbers: both are false of nan, whatever the other
\* number.
Less(a, b) ==
    IF IsNaN(a) \/ IsNaN(b) THEN FALSE
    ELSE IF IsInfinite(a) \/ IsInfinite(b) THEN Side(a) < Side(b)
    ELSE Numerator(a) * Denominator(b) < Numerator(b) * Denominator(a)

Equal(a, b) ==
    IF IsNaN(a) \/ IsNaN(b) THEN FALSE
    ELSE IF IsInfinite(a) \/ IsInfinite(b) THEN Side(a) = Side(b)
    ELSE Numerator(a) * Denominator(b) = Numerator(b) * Denominator(a)

\* `not v`: None, zero and an empty str or list are falsy.
PyNot(v) ==
    IF v.type = "NoneType" THEN TRUE
    ELSE IF IsNumber(v) THEN IsFinite(v) /\ Numerator(v) = 0
    ELSE v.val = <<>>

\* What every format and repr write for a float that is no fraction
NonFinite(v) ==
    IF IsNaN(v) THEN <<"n", "a", "n">>
    ELSE IF Side(v) < 0 THEN <<"-", "i", "n", "f">>
    ELSE <<"i", "n", "f">>

\* `key in d` and `d[key]` on a dict.
HasKey(d, key) == \E i \in 1..Len(d) : d[i][1] = key

DictGet(d, key) == d[CHOOSE i \in 1..Len(d) : d[i][1] = key][2]

\* s.ljust(width) and s.rjust(width)
Blanks(n) == [k \in 1..n |-> " "]

LeftJustified(s, width) ==
    IF Len(s) >= width THEN s ELSE s \o Blanks(width - Len(s))

RightJustified(s, width) ==
    IF Len(s) >= width THEN s ELSE Blanks(width - Len(s)) \o s

\* "{:.<p>g}".format(v) and "{:-.<p>g}".format(v) for a number: a minus
\* sign for a negative one.
FormatSignedG(p, v) ==
    IF ~IsFinite(v) THEN NonFinite(v)
    ELSE (IF Numerator(v) < 0 THEN <<"-">> ELSE <<>>)
            \o FormatG(p, IF Numerator(v) < 0 THEN 0 - Numerator(v)
                           ELSE Numerator(v),
                        Denominator(v))

\* The same for any value: a str has no format "g" (ValueError), and None
\* and a list have no format but the empty one (TypeError).
FormatNumber(p, v) ==
    IF IsNumber(v) THEN [raised |-> FALSE, value |-> FormatSignedG(p, v)]
    ELSE IF v.type = "str" THEN [raised |-> TRUE, error |-> "ValueError"]
    ELSE [raised |-> TRUE, error |-> "TypeError"]

\* "{:d}".format(n)
FormatD(n) == IF n < 0 THEN <<"-">> \o Str(0 - n) ELSE Str(n)

lower_hex_digits ==
    <<"0", "1", "2", "3", "4", "5", "6", "7", "8", "9", "a", "b", "c", "d",
      "e", "f">>

\* The code point cp in `width` hexadecimal digits.
HexOf(cp, width) ==
    [k \in 1..width |->
        lower_hex_digits[((cp \div 16 ^ (width - k)) % 16) + 1]]

\* The quote repr() puts a str in: the double one if the str has a single
\* quote and no double one, else the single one.
ReprQuote(s) ==
    IF (\E i \in 1..Len(s) : s[i] = "'") /\ (\A i \in 1..Len(s) : s[i] # "\"")
        THEN "\"" ELSE "'"

EscapedCodePoint(cp) ==
    IF cp < 256 THEN <<"\\", "x">> \o HexOf(cp, 2)
    ELSE IF cp < 65536 THEN <<"\\", "u">> \o HexOf(cp, 4)
    ELSE <<"\\", "U">> \o HexOf(cp, 8)

\* A character as repr() writes it in a str of this quote: the backslash
\* and the quote after a backslash, the tab, the line feed and the
\* carriage return by their letters, any other character that is not
\* printable by its code point.
ReprChar(c, quote) ==
    IF c = "\\" \/ c = quote THEN <<"\\", c>>
    ELSE IF c = "\t" THEN <<"\\", "t">>
    ELSE IF c = "\n" THEN <<"\\", "n">>
    ELSE IF c = "\r" THEN <<"\\", "r">>
    ELSE IF c = "\f" THEN EscapedCodePoint(12)
    ELSE IF IsPrintable(c) THEN <<c>>
    ELSE EscapedCodePoint(CodePoint(c))

RECURSIVE ReprBetween(_, _, _, _)
\* The characters lo..hi of s as repr() writes them.
ReprBetween(s, quote, lo, hi) ==
    IF lo < hi
        THEN ReprBetween(s, quote, lo, (lo + hi) \div 2)
                \o ReprBetween(s, quote, (lo + hi) \div 2 + 1, hi)
    ELSE IF lo = hi THEN ReprChar(s[lo], quote)
    ELSE <<>>

Quoted(s, quote) == <<quote>> \o ReprBetween(s, quote, 1, Len(s)) \o <<quote>>

\* repr(s) for a str
StrRepr(s) == Quoted(s, ReprQuote(s))

RECURSIVE PyRepr(_)
\* repr(v) for None, an int, a bool, a float, a str, and a list and a dict
\* of these, the keys of a dict being strs.
PyRepr(v) ==
    CASE v.type = "NoneType" -> <<"N", "o", "n", "e">>
      [] v.type = "str" -> StrRepr(v.val)
      [] v.type = "dict" ->
            <<"{">>
                \o Join(<<",", " ">>,
                        [k \in 1..Len(v.val) |->
                            StrRepr(v.val[k][1]) \o <<":", " ">>
                                \o PyRepr(v.val[k][2])])
                \o <<"}">>
      [] v.type = "bool" ->
            IF v.val = 1 THEN <<"T", "r", "u", "e">>
            ELSE <<"F", "a", "l", "s", "e">>
      [] v.type = "int" -> FormatD(v.val)
      [] v.type = "float" ->
            IF ~IsFinite(v) THEN NonFinite(v)
            ELSE IF v.num = 0 THEN <<"0", ".", "0">>
            ELSE (IF v.num < 0 THEN <<"-">> ELSE <<>>)
                    \o FloatRepr(DoubleOfRatio(
                            IF v.num < 0 THEN 0 - v.num ELSE v.num, v.den))
      [] v.type = "list" ->
            <<"[">>
                \o Join(<<",", " ">>,
                        [k \in 1..Len(v.val) |-> PyRepr(v.val[k])])
                \o <<"]">>

\* "{}".format(v), which is str(v): a str as it is.
PyFormat(v) == IF v.type = "str" THEN v.val ELSE PyRepr(v)

\* "{:6.2f}".format(100 * v): the product of two floats or of two ints,
\* and for a numpy.float32 the product in its 24 bits; a str times 100 is a
\* str, which has no format "f" (ValueError), a list times 100 is a list,
\* and None has no product (TypeError).
FormatPercent(v) ==
    LET negative == Numerator(v) < 0
        magnitude == IF negative THEN 0 - Numerator(v) ELSE Numerator(v)
        product ==
            CASE v.type = "float" ->
                    FloatTimes100In(53, DoubleOfRatio(magnitude, v.den))
              [] v.type = "numpy.float32" ->
                    FloatTimes100In(24, DoubleOfRatio(magnitude, v.den))
              [] OTHER -> DoubleOfRatio(100 * magnitude, 1)
    IN IF IsNumber(v) /\ ~IsFinite(v)
        THEN [raised |-> FALSE, value |-> RightJustified(NonFinite(v), 6)]
       ELSE IF IsNumber(v)
        THEN [raised |-> FALSE,
              value |-> RightJustified(
                            (IF negative THEN <<"-">> ELSE <<>>)
                                \o FormatFFloat(2, product), 6)]
       ELSE IF v.type = "str" THEN [raised |-> TRUE, error |-> "ValueError"]
       ELSE [raised |-> TRUE, error |-> "TypeError"]

\* The results of the passes of a loop that may raise: the exception of
\* the first pass that raises, which ends the loop, or the values of all.
Collected(results) ==
    LET raised == {k \in 1..Len(results) : results[k].raised} IN
    IF raised # {}
        THEN [raised |-> TRUE,
              error |-> results[CHOOSE k \in raised :
                                    \A j \in raised : k <= j].error]
        ELSE [raised |-> FALSE,
              value |-> [k \in 1..Len(results) |-> results[k].value]]

\* "{:5.3f}".format(v) for a number: three decimals, at least five
\* characters.
Format53f(v) ==
    LET negative == Numerator(v) < 0
        magnitude == IF negative THEN 0 - Numerator(v) ELSE Numerator(v)
    IN IF ~IsFinite(v) THEN RightJustified(NonFinite(v), 5)
       ELSE RightJustified(
            (IF negative THEN <<"-">> ELSE <<>>)
                \o FormatFFloat(3, DoubleOfRatio(magnitude, Denominator(v))),
            5)

\* s.split(separator) for a separator of one or more characters.
SplitOnString(s, separator) ==
    SplitAt(s, separator, Occurrences(s, separator)) \o <<>>

RECURSIVE JoinString(_, _)
\* separator.join(parts)
JoinString(separator, parts) ==
    IF parts = <<>> THEN <<>>
    ELSE IF Len(parts) = 1 THEN parts[1]
    ELSE parts[1] \o separator \o JoinString(separator, Tail(parts))

\* The characters of the code points 32 to 95 and 97 to 126; the grave
\* accent, 96, is written "U+0060", by its code point.
printable_ascii ==
    <<" ", "!", "\"", "#", "$", "%", "&", "'", "(", ")", "*", "+", ",", "-",
      ".", "/", "0", "1", "2", "3", "4", "5", "6", "7", "8", "9", ":", ";",
      "<", "=", ">", "?", "@", "A", "B", "C", "D", "E", "F", "G", "H", "I",
      "J", "K", "L", "M", "N", "O", "P", "Q", "R", "S", "T", "U", "V", "W",
      "X", "Y", "Z", "[", "\\", "]", "^", "_", "a", "b", "c", "d", "e",
      "f", "g", "h", "i", "j", "k", "l", "m", "n", "o", "p", "q", "r", "s",
      "t", "u", "v", "w", "x", "y", "z", "{", "|", "}", "~">>

AsciiOrd(k) == IF k <= 64 THEN 31 + k ELSE 32 + k

\* ord(c)
Ord(c) ==
    IF IsCodePoint(c) THEN CodePoint(c)
    ELSE IF c = "\t" THEN 9
    ELSE IF c = "\n" THEN 10
    ELSE IF c = "\f" THEN 12
    ELSE IF c = "\r" THEN 13
    ELSE AsciiOrd(CHOOSE k \in 1..Len(printable_ascii) : printable_ascii[k] = c)

\* The first index at which two sequences differ, 0 if one begins with
\* the other.
FirstDifference(Same(_, _), s, t) ==
    LET shorter == IF Len(s) < Len(t) THEN Len(s) ELSE Len(t)
        differ == {k \in 1..shorter : ~Same(s[k], t[k])}
    IN IF differ = {} THEN 0 ELSE Least(differ)

\* s < t on strs: by the code points of the first characters that differ,
\* a str before those it begins.
StrLessAt(s, t, k) ==
    IF k = 0 THEN Len(s) < Len(t) ELSE Ord(s[k]) < Ord(t[k])

StrLess(s, t) ==
    StrLessAt(s, t, FirstDifference(LAMBDA c, d : c = d, s, t))

RECURSIVE PyEqual(_, _)
\* a == b: numbers by their value, strs, lists and dicts by what they
\* hold, None with None, and values of two kinds never.  The values are
\* those read from the files of different models, no two of them one
\* object: a nan is equal to nothing, itself included.
PyEqual(a, b) ==
    IF IsNumber(a) /\ IsNumber(b) THEN Equal(a, b)
    ELSE IF a.type # b.type THEN FALSE
    ELSE IF a.type = "NoneType" THEN TRUE
    ELSE IF a.type = "str" THEN a.val = b.val
    ELSE IF a.type = "list"
        THEN /\ Len(a.val) = Len(b.val)
             /\ \A k \in 1..Len(a.val) : PyEqual(a.val[k], b.val[k])
    ELSE /\ Len(a.val) = Len(b.val)
         /\ \A k \in 1..Len(a.val) :
                /\ HasKey(b.val, a.val[k][1])
                /\ PyEqual(a.val[k][2], DictGet(b.val, a.val[k][1]))

RECURSIVE PyLess(_, _)
\* a < b on lists: the first items that are not equal decide, a list
\* before those it begins.
ListLessAt(a, b, k) ==
    IF k = 0 THEN [raised |-> FALSE, value |-> Len(a) < Len(b)]
    ELSE PyLess(a[k], b[k])

\* a < b: between numbers, between strs and between lists; a TypeError
\* for None, for a dict and for values of two kinds, a numpy.float32
\* beside a value that is no number taken as a float is.
PyLess(a, b) ==
    IF IsNumber(a) /\ IsNumber(b)
        THEN [raised |-> FALSE, value |-> Less(a, b)]
    ELSE IF a.type = "str" /\ b.type = "str"
        THEN [raised |-> FALSE, value |-> StrLess(a.val, b.val)]
    ELSE IF a.type = "list" /\ b.type = "list"
        THEN ListLessAt(a.val, b.val,
                        FirstDifference(PyEqual, a.val, b.val))
    ELSE [raised |-> TRUE, error |-> "TypeError"]

(***************************************************************************)
(* list.sort() of CPython on a list of fewer than 64 items, which every    *)
(* list sorted here is: the run the list begins with is found by comparing *)
(* each item with the one before it, a falling run is reversed, and every  *)
(* item after the run is put by a binary search among the items before it. *)
(* All comparisons are `<` on the keys.  `a` holds the indices of the      *)
(* keys in the order the list has.  With keys that `<` does not order, as  *)
(* nan, the order that comes out depends on the comparisons made.          *)
(***************************************************************************)
RECURSIVE RunFrom(_, _, _, _)
RunAfter(keys, a, k, descending, less) ==
    IF less.raised THEN less
    ELSE IF less.value # descending
        THEN [raised |-> FALSE, n |-> k - 1, descending |-> descending]
    ELSE RunFrom(keys, a, k + 1, descending)

\* count_run from the k-th item on
RunFrom(keys, a, k, descending) ==
    IF k > Len(a)
        THEN [raised |-> FALSE, n |-> Len(a), descending |-> descending]
    ELSE RunAfter(keys, a, k, descending,
                  PyLess(keys[a[k]], keys[a[k - 1]]))

FirstRun(keys, a, less) ==
    IF less.raised THEN less ELSE RunFrom(keys, a, 3, less.value)

CountRun(keys, a) == FirstRun(keys, a, PyLess(keys[a[2]], keys[a[1]]))

Reversed(s) == [k \in 1..Len(s) |-> s[Len(s) + 1 - k]]

\* The item at index start moved to index l
MovedTo(a, start, l) ==
    SubSeq(a, 1, l - 1) \o <<a[start]>> \o SubSeq(a, l, start - 1)
        \o SubSeq(a, start + 1, Len(a))

RECURSIVE BinarySearch(_, _, _, _, _)
Narrowed(keys, a, pivot, l, r, p, less) ==
    IF less.raised THEN less
    ELSE IF less.value THEN BinarySearch(keys, a, pivot, l, p)
    ELSE BinarySearch(keys, a, pivot, p + 1, r)

\* Where the pivot goes among the items from l to r - 1
BinarySearch(keys, a, pivot, l, r) ==
    IF l >= r THEN [raised |-> FALSE, value |-> l]
    ELSE Narrowed(keys, a, pivot, l, r, l + (r - l) \div 2,
                  PyLess(keys[pivot], keys[a[l + (r - l) \div 2]]))

RECURSIVE BinarySort(_, _, _)
Inserted(keys, a, start, place) ==
    IF place.raised THEN place
    ELSE BinarySort(keys, MovedTo(a, start, place.value), start + 1)

\* binarysort: the items before index start are sorted
BinarySort(keys, a, start) ==
    IF start > Len(a) THEN [raised |-> FALSE, value |-> a]
    ELSE Inserted(keys, a, start,
                  BinarySearch(keys, a, a[start], 1, start))

SortedAfterRun(keys, a, first) ==
    IF first.raised THEN first
    ELSE BinarySort(keys,
                    IF first.descending
                        THEN Reversed(SubSeq(a, 1, first.n))
                                \o SubSeq(a, first.n + 1, Len(a))
                        ELSE a,
                    first.n + 1)

ListSort(keys, a) ==
    IF Len(a) < 2 THEN [raised |-> FALSE, value |-> a]
    ELSE SortedAfterRun(keys, a, CountRun(keys, a))

ReversedBack(sorted) ==
    IF sorted.raised THEN sorted
    ELSE [raised |-> FALSE, value |-> Reversed(sorted.value)]

\* sorted(items, key = ..., reverse = True): the indices of the items in
\* their new order, or the TypeError of a comparison.  The list is
\* reversed, sorted and reversed again, so that items of equal keys keep
\* their order.
SortedDescending(keys) ==
    ReversedBack(ListSort(keys, Reversed([k \in 1..Len(keys) |-> k])))

\* --------------------------------------------------- main: one model

\* The name of the i-th data set directory, which is three directories
\* deep, and of the j-th model directory of a run with many models.
DataSetName(i) == <<"d">> \o Str(i) \o <<"/", "x", "/", "y">>

ModelName(j) ==
    <<"V", "A", "E", "/", "g", "a", "u", "s", "s", "i", "a", "n", "/",
          "p", "o", "i", "s", "s", "o", "n", "/", "l", "_", "2", "-", "h",
          "_">>
        \o Str(j) \o <<"/", "e", "_", "1", "0">>

\* The losses main reports, in the order of the list `losses`.
lower_bound_key ==
    <<"l", "o", "w", "e", "r", "_", "b", "o", "u", "n", "d">>

losses ==
    <<
      <<"l", "o", "g", "_", "l", "i", "k", "e", "l", "i", "h", "o", "o",
        "d">>,
      lower_bound_key,
      <<"r", "e", "c", "o", "n", "s", "t", "r", "u", "c", "t", "i", "o",
        "n", "_", "e", "r", "r", "o", "r">>,
      <<"k", "l", "_", "d", "i", "v", "e", "r", "g", "e", "n", "c", "e">>,
      <<"k", "l", "_", "d", "i", "v", "e", "r", "g", "e", "n", "c", "e",
        "_", "z">>,
      <<"k", "l", "_", "d", "i", "v", "e", "r", "g", "e", "n", "c", "e",
        "_", "z", "1">>,
      <<"k", "l", "_", "d", "i", "v", "e", "r", "g", "e", "n", "c", "e",
        "_", "z", "2">>,
      <<"k", "l", "_", "d", "i", "v", "e", "r", "g", "e", "n", "c", "e",
        "_", "y">>
    >>

\* The list `accuracies`: the key of test_metrics and its characters.
accuracies ==
    <<[key |-> "accuracy",
       name |->
            <<"a", "c", "c", "u", "r", "a", "c", "y">>],
      [key |-> "superset_accuracy",
       name |->
            <<"s", "u", "p", "e", "r", "s", "e", "t", "_", "a", "c", "c",
              "u", "r", "a", "c", "y">>]>>

\* The keys of a prediction and of a set of statistics, and the words main
\* looks for in them.
prediction_method_key ==
    <<"p", "r", "e", "d", "i", "c", "t", "i", "o", "n", " ", "m", "e", "t",
      "h", "o", "d">>

number_of_classes_key ==
    <<"n", "u", "m", "b", "e", "r", " ", "o", "f", " ", "c", "l", "a", "s",
      "s", "e", "s">>

name_key == <<"n", "a", "m", "e">>

reconstructed_word ==
    <<"r", "e", "c", "o", "n", "s", "t", "r", "u", "c", "t", "e", "d">>

ARI_prefix == <<"A", "R", "I">>

clusters_word == <<"c", "l", "u", "s", "t", "e", "r", "s">>

\* "; "
title_separator == <<";", " ">>

\* formatTime of the module auxiliary: the time of the time stamp as a
\* string, which is kept as the call that makes it.
formatTime(timestamp) ==
    <<"f", "o", "r", "m", "a", "t", "T", "i", "m", "e", "(">>
        \o PyFormat(timestamp) \o <<")">>

\* formatStatistics of the module analysis: the table of a set of
\* statistics as a string, which is kept as the call that makes it.
formatStatistics(statistics_set) ==
    <<"f", "o", "r", "m", "a", "t", "S", "t", "a", "t", "i", "s", "t", "i",
      "c", "s", "(">>
        \o PyFormat(DictGet(statistics_set, name_key)) \o <<")">>

\* "{}: {}<suffix>".format(label, formatted), or the exception that the
\* format of the value raised.
Labelled(label, formatted, suffix) ==
    IF formatted.raised THEN formatted
    ELSE [raised |-> FALSE,
          value |-> label \o <<":", " ">> \o formatted.value \o suffix]

\* "{}: {:-.6g}".format(loss, evaluation[loss][-1]): an IndexError for a
\* list of no value.
LossLine(evaluation, loss) ==
    LET loss_values == DictGet(evaluation, loss) IN
    IF loss_values = <<>> THEN [raised |-> TRUE, error |-> "IndexError"]
    ELSE Labelled(loss, FormatNumber(6, loss_values[Len(loss_values)]),
                  <<>>)

\* `for loss in losses: if loss in evaluation:` the lines of the losses.
LossLines(evaluation) ==
    LET Present(loss) == HasKey(evaluation, loss)
        present == SelectSeq(losses, Present)
    IN Collected([k \in 1..Len(present) |->
                    LossLine(evaluation, present[k])])

\* `evaluation["lower_bound"][-1]` if the evaluation has a lower bound,
\* else None.
ModelLowerBound(test_metrics) ==
    IF HasKey(test_metrics.evaluation, lower_bound_key)
        THEN LET lower_bounds ==
                    DictGet(test_metrics.evaluation, lower_bound_key)
             IN lower_bounds[Len(lower_bounds)]
        ELSE PyNone

\* "{}: {:6.2f} %".format(accuracy, 100 * test_metrics[accuracy][-1]) for
\* accuracies that are truthy: the last one of a list; the last character
\* of a str, which times 100 is a str (ValueError); a dict, whose keys are
\* strs, has no key -1 (KeyError); a number has no last one (TypeError).
AccuracyLine(name, accuracy_values) ==
    Labelled(name,
             IF accuracy_values.type = "list"
                THEN FormatPercent(
                        accuracy_values.val[Len(accuracy_values.val)])
             ELSE IF accuracy_values.type = "str"
                THEN [raised |-> TRUE, error |-> "ValueError"]
             ELSE IF accuracy_values.type = "dict"
                THEN [raised |-> TRUE, error |-> "KeyError"]
             ELSE [raised |-> TRUE, error |-> "TypeError"],
             <<" ", "%">>)

\* `for accuracy in accuracies: if accuracy in test_metrics and
\* test_metrics[accuracy]:` the lines of the accuracies.
AccuracyLines(test_metrics) ==
    LET Reported(accuracy) ==
            /\ accuracy.key \in DOMAIN test_metrics
            /\ ~PyNot(test_metrics[accuracy.key])
        reported == SelectSeq(accuracies, Reported)
    IN Collected([k \in 1..Len(reported) |->
                    AccuracyLine(reported[k].name,
                                 test_metrics[reported[k].key])])

\* `"reconstructed" in statistics_set["name"]`: whether a str has the word
\* in it, a list has it as an item, a dict has it as a key; a KeyError for
\* a set of no name, a TypeError for a name that holds nothing.
IsReconstructed(statistics_set) ==
    LET name == DictGet(statistics_set, name_key) IN
    IF ~HasKey(statistics_set, name_key)
        THEN [raised |-> TRUE, error |-> "KeyError"]
    ELSE IF name.type = "str"
        THEN [raised |-> FALSE,
              value |-> IsSubstring(reconstructed_word, name.val)]
    ELSE IF name.type = "list"
        THEN [raised |-> FALSE,
              value |-> \E i \in 1..Len(name.val) :
                            name.val[i] = PyStr(reconstructed_word)]
    ELSE IF name.type = "dict"
        THEN [raised |-> FALSE, value |-> HasKey(name.val, reconstructed_word)]
    ELSE [raised |-> TRUE, error |-> "TypeError"]

\* The lines of the statistics: statistics that are no list or an empty
\* one give none, and else the last set of a name with "reconstructed" is
\* formatted, if there is one.
ReconstructedLines(statistics_sets, tests) ==
    LET reconstructed ==
            {k \in 1..Len(statistics_sets) : tests.value[k]}
    IN IF tests.raised THEN tests
       ELSE IF reconstructed = {} THEN [raised |-> FALSE, value |-> <<>>]
       ELSE [raised |-> FALSE,
             value |-> <<formatStatistics(
                            statistics_sets[
                                CHOOSE k \in reconstructed :
                                    \A j \in reconstructed : j <= k])>>]

StatisticsSetsLines(statistics_sets) ==
    ReconstructedLines(statistics_sets,
                       Collected([k \in 1..Len(statistics_sets) |->
                                    IsReconstructed(statistics_sets[k])]))

StatisticsLines(statistics) ==
    StatisticsSetsLines(IF statistics.type = "list" THEN statistics.val
                        ELSE <<>>)

\* metrics_string_parts of a model up to the predictions, and its lower
\* bound: the ID, the time stamp, the epochs, the losses, the accuracies
\* and the statistics, with a KeyError for the first key read that
\* test_metrics does not have. The lines of the losses, of the accuracies
\* and of the statistics are read in this order, each only if the ones
\* before it raised nothing.
MetricsStringPartsOf(test_metrics, model_ID, loss_lines, accuracy_lines, statistics_lines) ==
    IF "timestamp" \notin DOMAIN test_metrics
            \/ "number of epochs trained" \notin DOMAIN test_metrics
            \/ "evaluation" \notin DOMAIN test_metrics
        THEN [raised |-> TRUE, error |-> "KeyError"]
    ELSE IF loss_lines.raised THEN loss_lines
    ELSE IF accuracy_lines.raised THEN accuracy_lines
    ELSE IF "statistics" \notin DOMAIN test_metrics
        THEN [raised |-> TRUE, error |-> "KeyError"]
    ELSE IF statistics_lines.raised THEN statistics_lines
    ELSE [raised |-> FALSE,
             lines |->
                <<<<"I", "D", ":", " ">> \o model_ID,
                  <<"T", "i", "m", "e", "s", "t", "a", "m", "p", ":", " ">>
                        \o formatTime(test_metrics.timestamp),
                  <<"E", "p", "o", "c", "h", "s", " ", "t", "r", "a", "i",
                    "n", "e", "d", ":", " ">>
                        \o PyFormat(
                                test_metrics["number of epochs trained"]),
                  <<>>>>
                    \o loss_lines.value \o accuracy_lines.value \o <<<<>>>>
                    \o statistics_lines.value \o <<<<>>>>,
             model_lower_bound |-> ModelLowerBound(test_metrics)]

MetricsStringParts(test_metrics, model_ID) ==
    MetricsStringPartsOf(test_metrics, model_ID,
                         LossLines(test_metrics.evaluation),
                         AccuracyLines(test_metrics),
                         StatisticsLines(test_metrics.statistics))

\* prediction_string = "{} ({} classes)".format(method, number_of_classes),
\* the method "model" if the prediction names none.
PredictionString(prediction) ==
    LET method == DictGet(prediction, prediction_method_key)
        number_of_classes == DictGet(prediction, number_of_classes_key)
    IN (IF PyNot(method) THEN <<"m", "o", "d", "e", "l">>
        ELSE PyFormat(method))
        \o <<" ", "(">> \o PyFormat(number_of_classes)
        \o <<" ", "c", "l", "a", "s", "s", "e", "s", ")">>

\* A slip: the filters not applied to the keys of a prediction.
KeyMatchAlways(prediction_string, key, included, excluded) == PyBool(TRUE)

\* key_match = matchString("; ".join([prediction_string, key]), ...)
KeyMatch(prediction_string, key, included, excluded) ==
    matchString(prediction_string \o title_separator \o key,
                included, excluded)

\* The dict ARIs of one prediction: its items, in their order, whose key
\* matches the prediction filters and starts with "ARI" and whose value is
\* not None.
ARIsOf(prediction, included, excluded) ==
    LET OfInterest(item) ==
            /\ Truthy(KeyMatch(PredictionString(prediction), item[1],
                               included, excluded))
            /\ StartsWith(item[1], ARI_prefix)
            /\ item[2] # PyNone
    IN SelectSeq(prediction, OfInterest)

\* The lines a prediction adds to metrics_string_parts: none without ARIs.
PredictionLines(prediction_string, ARIs) ==
    IF ARIs = <<>> THEN <<>>
    ELSE <<prediction_string \o <<":">>>>
            \o [k \in 1..Len(ARIs) |->
                    <<" ", " ", " ", " ">> \o ARIs[k][1] \o <<":", " ">>
                        \o FormatSignedG(6, ARIs[k][2])]
            \o <<<<>>>>

RECURSIVE CorrelationPairs(_, _, _, _)
\* The loop over ARIs.items(): an ARI of clusters above 0 adds the pair
\* (model_lower_bound, ARI_value) to the correlation set of its name, made
\* if it is not there.
CorrelationPairs(correlation_sets, ARIs, prediction_string, lower_bound) ==
    IF ARIs = <<>> THEN correlation_sets
    ELSE LET ARI_name == Head(ARIs)[1]
             ARI_value == Head(ARIs)[2]
             correlation_set_name ==
                prediction_string \o title_separator \o ARI_name
             present ==
                IF HasKey(correlation_sets, correlation_set_name)
                    THEN correlation_sets
                    ELSE Append(correlation_sets,
                                <<correlation_set_name,
                                  [ELBO |-> <<>>, ARI |-> <<>>]>>)
             old == DictGet(present, correlation_set_name)
         IN CorrelationPairs(
                IF IsSubstring(clusters_word, ARI_name)
                        /\ Less(PyInt(0), ARI_value)
                    THEN DictSet(present, correlation_set_name,
                            [ELBO |-> Append(old.ELBO, lower_bound),
                             ARI |-> Append(old.ARI, ARI_value)])
                    ELSE correlation_sets,
                Tail(ARIs), prediction_string, lower_bound)

\* [v for k, v in ARIs.items() if "clusters" in k]
ClusterARIs(ARIs) ==
    LET OfClusters(item) == IsSubstring(clusters_word, item[1])
        chosen == SelectSeq(ARIs, OfClusters)
    IN [k \in 1..Len(chosen) |-> chosen[k][2]]

\* One pass of `for prediction in test_metrics["predictions"].values():`
\* a KeyError for a prediction without its method or its number of
\* classes; the first ARI that is no number has no format "g" and ends the
\* pass after the ARIs before it have added their pairs.
ReportARIs(reported, prediction, prediction_string, ARIs, lower_bound) ==
    LET failing == {k \in 1..Len(ARIs) : ~IsNumber(ARIs[k][2])}
        first == CHOOSE k \in failing : \A j \in failing : k <= j
    IN IF ~HasKey(prediction, prediction_method_key)
            \/ ~HasKey(prediction, number_of_classes_key)
        THEN [raised |-> TRUE, error |-> "KeyError",
              correlation_sets |-> reported.correlation_sets]
       ELSE IF failing # {}
        THEN [raised |-> TRUE,
              error |-> FormatNumber(6, ARIs[first][2]).error,
              correlation_sets |->
                CorrelationPairs(reported.correlation_sets,
                                 SubSeq(ARIs, 1, first - 1),
                                 prediction_string, lower_bound)]
       ELSE [raised |-> FALSE,
             lines |-> reported.lines
                        \o PredictionLines(prediction_string, ARIs),
             correlation_sets |->
                CorrelationPairs(reported.correlation_sets, ARIs,
                                 prediction_string, lower_bound),
             model_ARIs |-> reported.model_ARIs \o ClusterARIs(ARIs)]

ReportPrediction(reported, prediction, included, excluded, lower_bound) ==
    ReportARIs(reported, prediction, PredictionString(prediction),
               ARIsOf(prediction, included, excluded), lower_bound)

RECURSIVE ReportPredictions(_, _, _, _, _)
\* `for prediction in test_metrics["predictions"].values():` what the
\* predictions add to the lines of the report, to the correlation sets and
\* to model_ARIs, up to the first pass that raises.
ReportPredictions(reported, predictions, included, excluded, lower_bound) ==
    IF predictions = <<>> \/ reported.raised THEN reported
    ELSE ReportPredictions(
            ReportPrediction(reported, Head(predictions)[2], included,
                             excluded, lower_bound),
            Tail(predictions), included, excluded, lower_bound)

\* ------------------------------------------- main: the end of a data set

\* pearsonr(x, y) of scipy.stats: a ValueError for fewer than two
\* observations, a TypeError for an observation that is no number, else the
\* coefficient, which is kept as the observations it is the coefficient of.
pearsonr(x, y) ==
    IF Len(x) < 2 THEN [raised |-> TRUE, error |-> "ValueError"]
    ELSE IF \E k \in 1..Len(x) : ~IsNumber(x[k]) \/ ~IsNumber(y[k])
        THEN [raised |-> TRUE, error |-> "TypeError"]
    ELSE [raised |-> FALSE, value |-> [ELBO |-> x, ARI |-> y]]

\* A slip: a correlation set of one pair taken as well.
TooFewPairsNone(correlation_set) == Len(correlation_set.ELBO) < 1

\* `if len(correlation_sets[set_name]["ELBO"]) < 2: continue`
TooFewPairs(correlation_set) == Len(correlation_set.ELBO) < 2

RECURSIVE CorrelationTable(_, _)
\* `for set_name in correlation_sets:` the correlation table after the sets
\* from the given ones on, or the exception of pearsonr.
CorrelationTable(correlation_table, correlation_sets) ==
    IF correlation_sets = <<>>
        THEN [raised |-> FALSE, value |-> correlation_table]
    ELSE LET set_name == Head(correlation_sets)[1]
             correlation_set == Head(correlation_sets)[2]
             coefficient == pearsonr(correlation_set.ELBO,
                                     correlation_set.ARI)
         IN IF TooFewPairs(correlation_set)
                THEN CorrelationTable(correlation_table,
                                      Tail(correlation_sets))
            ELSE IF coefficient.raised THEN coefficient
            ELSE CorrelationTable(
                    DictSet(correlation_table, set_name,
                            [r |-> coefficient.value]),
                    Tail(correlation_sets))

\* list.pop(0) and list.pop(-1): an IndexError on an empty list.
PopFirst(list) ==
    IF list = <<>> THEN [raised |-> TRUE, error |-> "IndexError"]
    ELSE [raised |-> FALSE, value |-> Head(list), rest |-> Tail(list)]

PopLast(list) ==
    IF list = <<>> THEN [raised |-> TRUE, error |-> "IndexError"]
    ELSE [raised |-> FALSE, value |-> list[Len(list)],
          rest |-> SubSeq(list, 1, Len(list) - 1)]

\* A slip: the epochs taken from the front as well, so that three segments
\* are enough.
ComparisonFieldsFromFront(model_title) ==
    LET parts == SplitOnString(model_title, title_separator) IN
    IF Len(parts) < 3 THEN [raised |-> TRUE, error |-> "IndexError"]
    ELSE [raised |-> FALSE,
          value |-> << <<"type", PyStr(parts[1])>>,
                       <<"distribution", PyStr(parts[2])>>,
                       <<"sizes", PyStr(parts[3])>>,
                       <<"epochs", PyStr(parts[Len(parts)])>>,
                       <<"other", PyStr(JoinString(title_separator,
                                        SubSeq(parts, 4, Len(parts))))>> >>]

\* The dict handed to update(): the title split on "; ", three segments
\* popped from the front, one from the end, the rest joined again; or the
\* IndexError of the first pop from an empty list.
ComparisonFields(model_title) ==
    LET parts == SplitOnString(model_title, title_separator)
        type == PopFirst(parts)
        distribution == PopFirst(type.rest)
        sizes == PopFirst(distribution.rest)
        epochs == PopLast(sizes.rest)
    IN IF type.raised THEN type
       ELSE IF distribution.raised THEN distribution
       ELSE IF sizes.raised THEN sizes
       ELSE IF epochs.raised THEN epochs
       ELSE [raised |-> FALSE,
             value |-> << <<"type", PyStr(type.value)>>,
                          <<"distribution", PyStr(distribution.value)>>,
                          <<"sizes", PyStr(sizes.value)>>,
                          <<"epochs",
                            PyStr(StrReplace(epochs.value,
                                    <<" ", "e", "p", "o", "c", "h", "s">>,
                                    <<>>))>>,
                          <<"other",
                            PyStr(JoinString(title_separator,
                                             epochs.rest))>> >>]

RECURSIVE DictUpdate(_, _)
\* d.update(items)
DictUpdate(d, items) ==
    IF items = <<>> THEN d
    ELSE DictUpdate(DictSet(d, Head(items)[1], Head(items)[2]), Tail(items))

RECURSIVE UpdateComparisons(_, _)
\* `for model_title in comparisons:` from the k-th title on: the fields of
\* every row, or the rows so far and the exception of the first title that
\* has too few segments.
UpdateComparisons(comparisons, k) ==
    IF k > Len(comparisons)
        THEN [raised |-> FALSE, comparisons |-> comparisons]
    ELSE LET fields == ComparisonFields(comparisons[k][1]) IN
         IF fields.raised
            THEN [raised |-> TRUE, error |-> fields.error,
                  comparisons |-> comparisons]
            ELSE UpdateComparisons(
                    [comparisons EXCEPT
                        ![k] = <<@[1], DictUpdate(@[2], fields.value)>>],
                    k + 1)

\* The titles of the rows in the order of the indices
ItemsInOrder(comparisons, order) ==
    IF order.raised THEN order
    ELSE [raised |-> FALSE,
          value |-> [k \in 1..Len(order.value) |->
                        comparisons[order.value[k]][1]]]

\* sorted(comparisons.items(), key = ...["ELBO"], reverse = True): the
\* titles of the rows, each row the dict that comparisons holds under that
\* title, or the TypeError of a comparison of two ELBOs that `<` does not
\* take, as None.
SortedComparisonItems(comparisons) ==
    ItemsInOrder(comparisons,
                 SortedDescending([k \in 1..Len(comparisons) |->
                                    DictGet(comparisons[k][2], "ELBO")]))

\* "VAE(G)", "NB" and "BN": the rows of the heat map.
heat_map_type == <<"V", "A", "E", "(", "G", ")">>

heat_map_distribution == <<"N", "B">>

heat_map_other == <<"B", "N">>

\* epoch_cut_off: math.inf by default, else an int.
AboveCutOff(epochs, epoch_cut_off) ==
    epoch_cut_off # inf /\ LongLess(LongOf(epoch_cut_off.val), epochs)

\* architecture.rsplit("×", maxsplit = 1)
RSplitTimes(architecture) ==
    LET at == {k \in 1..Len(architecture) : architecture[k] = times} IN
    IF at = {} THEN <<architecture>>
    ELSE LET last == CHOOSE k \in at : \A j \in at : j <= k IN
         <<SubSeq(architecture, 1, last - 1),
           SubSeq(architecture, last + 1, Len(architecture))>>

\* A slip: the later row kept whatever its label.
KeepsNewAlways(kept_epochs, epochs) == [raised |-> FALSE, value |-> TRUE]

\* `best_model_version = bestModelVersion(kept, epochs)
\*  if epochs == best_model_version:`
KeepsNew(kept_epochs, epochs) ==
    LET best_model_version == bestModelVersion(kept_epochs, epochs) IN
    IF best_model_version.raised THEN best_model_version
    ELSE [raised |-> FALSE, value |-> epochs = best_model_version.value]

\* network_architecture_ELBOs[l][h] = ELBO (and the same on the epochs),
\* the dict of l made if it is not there.
NestedSet(d, l, h, value) ==
    DictSet(d, l, DictSet(IF HasKey(d, l) THEN DictGet(d, l) ELSE <<>>,
                          h, value))

\* An exception raised in the loop over the rows
RaisedIn(selection, error) ==
    [raised |-> TRUE, error |-> error, ELBOs |-> selection.ELBOs,
     epochs |-> selection.epochs]

RECURSIVE HeatMapSelection(_, _, _)
\* `for model_title, model_fields in comparisons.items():` from the given
\* rows on: the two dicts of the heat map, or the exception of a row with
\* the two dicts as they were then.
HeatMapSelection(selection, comparisons, epoch_cut_off) ==
    IF comparisons = <<>>
        THEN [raised |-> FALSE, ELBOs |-> selection.ELBOs,
              epochs |-> selection.epochs]
    ELSE LET model_fields == Head(comparisons)[2]
             epochs == DictGet(model_fields, "epochs").val
             architecture == DictGet(model_fields, "sizes").val
             ELBO == DictGet(model_fields, "ELBO")
             words == Split(epochs)
             parts == RSplitTimes(architecture)
             h == parts[1]
             l == parts[2]
             known == /\ HasKey(selection.ELBOs, l)
                      /\ HasKey(DictGet(selection.ELBOs, l), h)
             keeps == KeepsNew(DictGet(DictGet(selection.epochs, l), h),
                               epochs)
             set == [ELBOs |-> NestedSet(selection.ELBOs, l, h, ELBO),
                     epochs |-> NestedSet(selection.epochs, l, h,
                                          epochs)]
             rest == Tail(comparisons)
         IN IF ~(/\ DictGet(model_fields, "type").val = heat_map_type
                 /\ DictGet(model_fields, "distribution").val
                        = heat_map_distribution
                 /\ DictGet(model_fields, "other").val = heat_map_other)
                THEN HeatMapSelection(selection, rest, epoch_cut_off)
            ELSE IF words = <<>>
                THEN RaisedIn(selection, "IndexError")
            ELSE IF ~int(words[1]).ok
                THEN RaisedIn(selection, "ValueError")
            ELSE IF AboveCutOff(int(words[1]).value, epoch_cut_off)
                THEN HeatMapSelection(selection, rest, epoch_cut_off)
            ELSE IF Len(parts) # 2
                THEN RaisedIn(selection, "ValueError")
            ELSE IF ~known
                THEN HeatMapSelection(set, rest, epoch_cut_off)
            ELSE IF keeps.raised THEN RaisedIn(selection, keeps.error)
            ELSE IF keeps.value
                THEN HeatMapSelection(set, rest, epoch_cut_off)
            ELSE HeatMapSelection(selection, rest, epoch_cut_off)

RECURSIVE ProductFrom(_, _, _)
ProductFrom(numbers, k, product) ==
    IF k > Len(numbers) THEN product
    ELSE ProductFrom(numbers, k + 1, LongTimes(product, numbers[k]))

\* prod of the module auxiliary, which main imports: the product of the
\* numbers, 1 for none.
prod(numbers) == ProductFrom(numbers, 1, LongOf(1))

RECURSIVE FrameIndex(_, _)
\* The index pandas gives the frame of a dict of dicts: the keys of the
\* inner dicts, each where it is first met.
FrameIndex(d, index) ==
    IF d = <<>> THEN index
    ELSE FrameIndex(Tail(d),
                    index \o SelectSeq(
                        [j \in 1..Len(Head(d)[2]) |-> Head(d)[2][j][1]],
                        LAMBDA h : \A i \in 1..Len(index) : index[i] # h))

\* A frame of the dict d of dicts with the given labels: the cell of the
\* row h and the column l is d[l][h], and nan where d[l] has no h.  The
\* cells hold the values as the dict has them.
Frame(d, columns, index) ==
    [type |-> "DataFrame",
     columns |-> columns,
     index |-> index,
     values |-> [i \in 1..Len(index) |->
                    [j \in 1..Len(columns) |->
                        IF HasKey(DictGet(d, columns[j]), index[i])
                            THEN DictGet(DictGet(d, columns[j]), index[i])
                            ELSE PyNaN]]]

\* pandas.DataFrame(d): a column for every key of d, in the order of d.
DataFrame(d) ==
    Frame(d, [i \in 1..Len(d) |-> d[i][1]], FrameIndex(d, <<>>))

\* frame.size
FrameSize(frame) == Len(frame.columns) * Len(frame.index)

\* sorted(labels, key = ...) with keys that are ints: the labels by their
\* keys, labels of one key in the order they had.
SortedByInt(labels, keys) ==
    [i \in 1..Len(labels) |->
        labels[CHOOSE k \in 1..Len(labels) :
                Cardinality({j \in 1..Len(labels) :
                                \/ LongLess(keys[j], keys[k])
                                \/ keys[j] = keys[k] /\ j < k}) + 1 = i]]

\* `lambda s: int(s)` on the columns and
\* `lambda s: prod(map(int, s.split("×")))` on the index: a ValueError if a
\* label, or a part of it, is no numeral.
ColumnKey(l) ==
    IF int(l).ok THEN [raised |-> FALSE, value |-> int(l).value]
    ELSE [raised |-> TRUE, error |-> "ValueError"]

IndexKeyOf(parts) ==
    IF \E k \in 1..Len(parts) : ~int(parts[k]).ok
        THEN [raised |-> TRUE, error |-> "ValueError"]
    ELSE [raised |-> FALSE,
          value |-> prod([k \in 1..Len(parts) |-> int(parts[k]).value])]

IndexKey(h) == IndexKeyOf(SplitOnString(h, <<times>>))

\* frame.reindex(columns = sorted(frame.columns, key = ...)) and
\* frame.reindex(index = sorted(frame.index, key = ...)) on the frame of d
ColumnsSorted(d, frame) ==
    IF \E j \in 1..Len(frame.columns) : ColumnKey(frame.columns[j]).raised
        THEN [raised |-> TRUE, error |-> "ValueError", frame |-> frame]
    ELSE [raised |-> FALSE,
          frame |-> Frame(d,
                          SortedByInt(frame.columns,
                                      [j \in 1..Len(frame.columns) |->
                                        ColumnKey(frame.columns[j]).value]),
                          frame.index)]

IndexSorted(d, frame) ==
    IF \E i \in 1..Len(frame.index) : IndexKey(frame.index[i]).raised
        THEN [raised |-> TRUE, error |-> "ValueError", frame |-> frame]
    ELSE [raised |-> FALSE,
          frame |-> Frame(d, frame.columns,
                          SortedByInt(frame.index,
                                      [i \in 1..Len(frame.index) |->
                                        IndexKey(frame.index[i]).value]))]

IndexSortedAfter(d, sorted) ==
    IF sorted.raised THEN sorted ELSE IndexSorted(d, sorted.frame)

\* The frame network_architecture_ELBOs is bound to in place of the dict:
\* its columns the latent sizes l by int(l), its rows the hidden sizes h by
\* the product of their numbers; with a ValueError the frame as it was
\* when the labels were to be sorted.
HeatMapFrame(network_architecture_ELBOs) ==
    IndexSortedAfter(network_architecture_ELBOs,
                     ColumnsSorted(network_architecture_ELBOs,
                                   DataFrame(network_architecture_ELBOs)))

\* ------------------------------------------ main: the comparison table

\* min(list) and max(list) of numbers: the item kept is replaced by a
\* later one that is less, or is greater, than it, which gives the first
\* of the least and of the greatest, and with a nan in the list whatever
\* these comparisons leave.
RECURSIVE MinimumFrom(_, _, _)
MinimumFrom(list, k, least) ==
    IF k > Len(list) THEN least
    ELSE MinimumFrom(list, k + 1,
                     IF Less(list[k], least) THEN list[k] ELSE least)

Minimum(list) == MinimumFrom(list, 2, list[1])

RECURSIVE MaximumFrom(_, _, _)
MaximumFrom(list, k, greatest) ==
    IF k > Len(list) THEN greatest
    ELSE MaximumFrom(list, k + 1,
                     IF Less(greatest, list[k]) THEN list[k] ELSE greatest)

Maximum(list) == MaximumFrom(list, 2, list[1])

\* One pass of the inner loop at lines 478-509: a str is left as it is, a
\* falsy value becomes "", a float, an int and a list are formatted, and a
\* value of another type raises a TypeError.
FormatField(field_value) ==
    IF IsInstance(field_value, "str")
        THEN [raised |-> FALSE, value |-> field_value]
    ELSE IF PyNot(field_value)
        THEN [raised |-> FALSE, value |-> PyStr(<<>>)]
    ELSE IF IsInstance(field_value, "float")
        THEN [raised |-> FALSE,
              value |-> PyStr(FormatSignedG(6, field_value))]
    ELSE IF IsInstance(field_value, "int")
        THEN [raised |-> FALSE, value |-> PyStr(FormatD(field_value.val))]
    ELSE IF IsInstance(field_value, "list")
        THEN LET minimum == Minimum(field_value.val)
                 maximum == Maximum(field_value.val)
             IN [raised |-> FALSE,
                 value |-> PyStr(
                    IF Equal(minimum, maximum)
                        THEN FormatSignedG(6, maximum)
                        ELSE Format53f(minimum) \o <<en_dash>>
                                \o Format53f(maximum))]
    ELSE [raised |-> TRUE, error |-> "TypeError"]

\* The inner loop at lines 478-509 on the fields of one row: every field a
\* str, or the fields before the first one that raises rewritten and the
\* TypeError.
FormattedFields(model_fields, strings) ==
    LET raising == {j \in 1..Len(model_fields) : strings[j].raised}
        first == CHOOSE j \in raising : \A i \in raising : j <= i
    IN IF raising = {}
        THEN [raised |-> FALSE,
              fields |-> [j \in 1..Len(model_fields) |->
                            <<model_fields[j][1], strings[j].value>>]]
        ELSE [raised |-> TRUE, error |-> strings[first].error,
              fields |-> [j \in 1..Len(model_fields) |->
                            IF j < first
                                THEN <<model_fields[j][1], strings[j].value>>
                                ELSE model_fields[j]]]

FormatFields(model_fields) ==
    FormattedFields(model_fields,
                    [j \in 1..Len(model_fields) |->
                        FormatField(model_fields[j][2])])

RECURSIVE FormatComparisons(_, _)
\* Row k with its fields formatted, and the rows after it.
FormattedRow(comparisons, k, formatted) ==
    LET rewritten == [comparisons EXCEPT ![k][2] = formatted.fields]
    IN IF formatted.raised
        THEN [raised |-> TRUE, error |-> formatted.error,
              comparisons |-> rewritten]
        ELSE FormatComparisons(rewritten, k + 1)

\* The outer loop at line 477 from row k on: the rows rewritten in place,
\* or the rows as far as they were rewritten and the TypeError.
FormatComparisons(comparisons, k) ==
    IF k > Len(comparisons)
        THEN [raised |-> FALSE, comparisons |-> comparisons]
    ELSE FormattedRow(comparisons, k, FormatFields(comparisons[k][2]))

model_spec_names ==
    <<"ID", "type", "distribution", "sizes", "other", "epochs">>

model_metric_names == <<"ELBO", "ARI">>

model_field_names == model_spec_names \o model_metric_names

\* The field names as strings, and model_spec_short_names.
FieldName ==
    [ID |-> <<"I", "D">>,
     type |-> <<"t", "y", "p", "e">>,
     distribution |->
        <<"d", "i", "s", "t", "r", "i", "b", "u", "t", "i", "o",
                      "n">>,
     sizes |-> <<"s", "i", "z", "e", "s">>,
     other |-> <<"o", "t", "h", "e", "r">>,
     epochs |-> <<"e", "p", "o", "c", "h", "s">>,
     ELBO |-> <<"E", "L", "B", "O">>,
     ARI |-> <<"A", "R", "I">>]

model_spec_short_names ==
    [ID |-> <<"#">>, type |-> <<"T">>, distribution |-> <<"L", "D">>,
     sizes |-> <<"S">>, other |-> <<"O">>, epochs |-> <<"E">>]

\* str.lower() and str.capitalize() on ASCII letters.
lowercase_letters ==
    <<"a", "b", "c", "d", "e", "f", "g", "h", "i", "j", "k", "l", "m",
      "n", "o", "p", "q", "r", "s", "t", "u", "v", "w", "x", "y", "z">>

LowerChar(c) ==
    IF \E k \in 1..26 : ascii_uppercase[k] = c
        THEN lowercase_letters[CHOOSE k \in 1..26 : ascii_uppercase[k] = c]
        ELSE c

UpperChar(c) ==
    IF \E k \in 1..26 : lowercase_letters[k] = c
        THEN ascii_uppercase[CHOOSE k \in 1..26 : lowercase_letters[k] = c]
        ELSE c

Lower(s) == [k \in 1..Len(s) |-> LowerChar(s[k])]

Capitalize(s) ==
    [k \in 1..Len(s) |-> IF k = 1 THEN UpperChar(s[k]) ELSE LowerChar(s[k])]

\* comparison_table_column_widths[field_name]
ColumnWidth(comparisons, field_name) ==
    LET lengths == {Len(DictGet(comparisons[k][2], field_name).val) :
                        k \in 1..Len(comparisons)}
    IN CHOOSE width \in lengths : \A length \in lengths : length <= width

\* The heading of a column: the short name if the name is wider than the
\* column, the capitalized name if it is in lower case.
ColumnHeading(field_name, field_width) ==
    LeftJustified(
        IF \E k \in 1..Len(model_spec_names) : model_spec_names[k] = field_name
            THEN IF Len(FieldName[field_name]) > field_width
                    THEN model_spec_short_names[field_name]
                 ELSE IF FieldName[field_name] = Lower(FieldName[field_name])
                    THEN Capitalize(FieldName[field_name])
                 ELSE FieldName[field_name]
            ELSE FieldName[field_name],
        field_width)

\* The names of the columns that are not empty, in the order of
\* model_field_names.
ShownFields(comparisons) ==
    LET Shown(field_name) == ColumnWidth(comparisons, field_name) > 0
    IN SelectSeq(model_field_names, Shown)

\* The row of a title: its fields in the order of model_field_names, each
\* as wide as its column, two blanks between them.
ComparisonTableRow(comparisons, model_title) ==
    LET shown == ShownFields(comparisons)
        model_fields == DictGet(comparisons, model_title)
    IN JoinString(<<" ", " ">>,
            [k \in 1..Len(shown) |->
                LeftJustified(DictGet(model_fields, shown[k]).val,
                              ColumnWidth(comparisons, shown[k]))])

\* comparison_table_rows: the heading, the rule and a row for every item
\* of sorted_comparison_items, in its order.
ComparisonTableRows(comparisons, sorted_comparison_items) ==
    LET shown == ShownFields(comparisons)
        comparison_table_heading ==
            JoinString(<<" ", " ">>,
                [k \in 1..Len(shown) |->
                    ColumnHeading(shown[k],
                                  ColumnWidth(comparisons, shown[k]))])
    IN <<comparison_table_heading,
         [k \in 1..Len(comparison_table_heading) |-> "-"]>>
        \o [k \in 1..Len(sorted_comparison_items) |->
                ComparisonTableRow(comparisons, sorted_comparison_items[k])]

\* ------------------------------------------------------- main: the run

\* plotCorrelations and saveFigure of the module analysis, called on all
\* the correlation sets of the data set, also those of one pair: they draw
\* and save the figure and raise nothing.
plotCorrelations(correlation_sets) == [raised |-> FALSE]

\* plotELBOHeatMap and saveFigure of the module analysis: nothing raised.
plotELBOHeatMap(network_architecture_ELBOs) == [raised |-> FALSE]

\* What main prints for a data set after its models, as it is kept in
\* run.printed.
Printed(data_set, kind, content) ==
    [data_set |-> data_set, kind |-> kind, content |-> content]

RECURSIVE NormalComponents(_, _, _)
\* The loop of os.path.normpath over the components of a path: an empty
\* one and "." are left out, and ".." takes the component before it away
\* if there is one that is not "..".
NormalComponents(comps, new_comps, initial_slashes) ==
    IF comps = <<>> THEN new_comps
    ELSE NormalComponents(
            Tail(comps),
            IF Head(comps) \in {<<>>, <<".">>} THEN new_comps
            ELSE IF \/ Head(comps) # <<".", ".">>
                    \/ initial_slashes = 0 /\ new_comps = <<>>
                    \/ /\ new_comps # <<>>
                       /\ new_comps[Len(new_comps)] = <<".", ".">>
                THEN Append(new_comps, Head(comps))
            ELSE IF new_comps # <<>>
                THEN SubSeq(new_comps, 1, Len(new_comps) - 1)
            ELSE new_comps,
            initial_slashes)

\* os.path.normpath(path) of posixpath
normpath(path) ==
    LET initial_slashes ==
            IF StartsWith(path, <<"/", "/">>)
                    /\ ~StartsWith(path, <<"/", "/", "/">>) THEN 2
            ELSE IF StartsWith(path, sep) THEN 1
            ELSE 0
        normal ==
            [k \in 1..initial_slashes |-> "/"]
                \o Join(sep, NormalComponents(SplitOn(path, sep), <<>>,
                                              initial_slashes))
    IN IF normal = <<>> THEN <<".">> ELSE normal

\* The files of a model directory: the metrics file, which holds the
\* metrics without the predictions, and a file for every prediction.
FilesOf(test_metrics) ==
    LET predictions ==
            IF "predictions" \in DOMAIN test_metrics
                THEN test_metrics.predictions ELSE <<>>
    IN <<<<test_metrics_basename \o zipped_pickle_extension,
           [key \in DOMAIN test_metrics \ {"predictions"} |->
                test_metrics[key]]>>>>
        \o [k \in 1..Len(predictions) |->
                <<test_prediction_basename \o <<"-">> \o predictions[k][1]
                    \o zipped_pickle_extension,
                  predictions[k][2]>>]

RECURSIVE Concatenation(_)
Concatenation(lists) ==
    IF lists = <<>> THEN <<>>
    ELSE Head(lists) \o Concatenation(Tail(lists))

\* The model directories of a disk, in the order they are walked: the path
\* below the results directory and the files.
ModelDirectories(data_sets) ==
    Concatenation(
        [i \in 1..Len(data_sets) |->
            [j \in 1..Len(data_sets[i][2]) |->
                [path |-> data_sets[i][1] \o sep \o data_sets[i][2][j][1],
                 files |-> FilesOf(data_sets[i][2][j][2])]]])

\* What os.walk yields for the k-th model directory: the directories above
\* it that no model directory before it is below, from the top down, which
\* hold no file, and then the model directory.
WalkTo(top, directories, k) ==
    LET path == directories[k].path
        IsSeparator(i) == path[i] = "/"
        cuts == <<0>> \o SelectSeq([i \in 1..Len(path) |-> i], IsSeparator)
        Above(cut) == IF cut = 0 THEN <<>> ELSE SubSeq(path, 1, cut - 1)
        NotWalked(cut) ==
            \A j \in 1..(k - 1) :
                /\ cut # 0
                /\ ~StartsWith(directories[j].path \o sep, Above(cut) \o sep)
        new == SelectSeq(cuts, NotWalked)
    IN [i \in 1..Len(new) |->
            [path |-> top \o Above(new[i]), filenames |-> <<>>,
             files |-> <<>>]]
        \o <<[path |-> top \o path,
               filenames |-> [i \in 1..Len(directories[k].files) |->
                                directories[k].files[i][1]],
               files |-> directories[k].files]>>

\* os.walk(top) on the disk: nothing for a directory that is not there,
\* and else every directory from the top down with its files.
OsWalk(top, disk) ==
    LET directories == ModelDirectories(disk.data_sets) IN
    IF top # disk.directory \o sep THEN <<>>
    ELSE IF directories = <<>>
        THEN <<[path |-> top, filenames |-> <<>>, files |-> <<>>]>>
    ELSE Concatenation([k \in 1..Len(directories) |->
                            WalkTo(top, directories, k)])

\* The arguments of main that testMetricsInResultsDirectory gets.
ScanArgumentsOf(arguments) ==
    [results_directory |-> arguments.results_directory.val,
     data_set_included_strings |-> arguments.data_set_included_strings,
     data_set_excluded_strings |-> arguments.data_set_excluded_strings,
     model_included_strings |-> arguments.model_included_strings,
     model_excluded_strings |-> arguments.model_excluded_strings]

\* `if results_directory:` main does nothing without a results directory;
\* with one it is normalised and the scan starts on an empty mapping.  The
\* arguments of main are in run from the start.
\* log_summary is False, as main and the command line have it by default:
\* the log file of lines 115-124, 157-161, 321-323, 368-369 and 575-584 is
\* not written.
MainStart ==
    /\ run.pc = "start"
    /\ IF PyNot(run.results_directory)
        THEN /\ run' = [run EXCEPT !.pc = "done"]
             /\ UNCHANGED <<walk, test_metrics_set>>
        ELSE \E results_directory \in
                    {normpath(run.results_directory.val) \o sep} :
                /\ run' = [run EXCEPT
                        !.pc = "scan",
                        !.results_directory = PyStr(results_directory)]
                /\ walk' = [walk EXCEPT
                        !.pc = "os.walk",
                        !.yields = OsWalk(results_directory, walk),
                        !.position = 1]
                /\ test_metrics_set' = <<>>
    /\ UNCHANGED <<ms, bv, model_IDs, ids, tn>>

\* One pass of the loop of testMetricsInResultsDirectory over os.walk.
MainScan ==
    /\ run.pc = "scan"
    /\ walk.position <= Len(walk.yields)
    /\ \E directory \in {walk.yields[walk.position]} :
            test_metrics_set' =
                ScanDirectory(test_metrics_set, directory.path,
                              directory.filenames, directory.files,
                              ScanArgumentsOf(run))
    /\ walk' = [walk EXCEPT !.position = @ + 1]
    /\ UNCHANGED <<ms, bv, model_IDs, ids, run, tn>>

\* The scan returns the mapping, and `model_IDs = modelID()` makes the
\* generator, once, before the loops.
MainScanned ==
    /\ run.pc = "scan"
    /\ walk.position > Len(walk.yields)
    /\ walk' = [walk EXCEPT !.pc = "done"]
    /\ model_IDs' = 0
    /\ ids' = IdsNone
    /\ run' = [run EXCEPT !.pc = "data_set", !.data_set = 1]
    /\ UNCHANGED <<ms, test_metrics_set, bv, tn>>

\* A slip: the generator made anew for every data set.
MainDataSetRestart ==
    /\ run.pc = "data_set"
    /\ IF run.data_set > Len(test_metrics_set)
        THEN run' = [run EXCEPT !.pc = "done"]
        ELSE \E data_set_title \in
                {titleFromDataSetName(test_metrics_set[run.data_set][1])} :
                IF data_set_title.raised
                    THEN run' = [run EXCEPT !.pc = data_set_title.error]
                    ELSE run' = [run EXCEPT
                            !.pc = "model", !.model = 1,
                            !.data_set_title = data_set_title.value,
                            !.comparisons = <<>>,
                            !.correlation_sets = <<>>]
    /\ model_IDs' = 0
    /\ UNCHANGED <<ms, walk, test_metrics_set, bv, ids, tn>>

\* `for data_set_name, models in test_metrics_set.items():` takes the next
\* data set, makes its title and empties comparisons and correlation_sets,
\* or ends the run.
MainDataSet ==
    /\ run.pc = "data_set"
    /\ IF run.data_set > Len(test_metrics_set)
        THEN run' = [run EXCEPT !.pc = "done"]
        ELSE \E data_set_title \in
                {titleFromDataSetName(test_metrics_set[run.data_set][1])} :
                IF data_set_title.raised
                    THEN run' = [run EXCEPT !.pc = data_set_title.error]
                    ELSE run' = [run EXCEPT
                            !.pc = "model", !.model = 1,
                            !.data_set_title = data_set_title.value,
                            !.comparisons = <<>>,
                            !.correlation_sets = <<>>]
    /\ UNCHANGED <<ms, walk, test_metrics_set, bv, model_IDs, ids, tn>>

\* `for model_name, test_metrics in models.items():` one model: its title,
\* its ID, which is next(model_IDs), the lines of its report, the pairs it
\* adds to the correlation sets and its row in comparisons, which is keyed
\* by the title.  An exception leaves main: the ID is taken by then if the
\* title was made, and the pairs added before it stay added.
MainModel ==
    /\ run.pc = "model"
    /\ run.model <= Len(test_metrics_set[run.data_set][2])
    /\ LET data_set_name == test_metrics_set[run.data_set][1]
           model_name == test_metrics_set[run.data_set][2][run.model][1]
           test_metrics == test_metrics_set[run.data_set][2][run.model][2]
       IN
        \E model_title \in {titleFromModelName(model_name)} :
        IF model_title.raised
            THEN /\ run' = [run EXCEPT !.pc = model_title.error]
                 /\ UNCHANGED <<model_IDs, ids>>
            ELSE
                \E r \in {modelID(model_IDs)} :
                /\ model_IDs' = r.position
                /\ ids' = [n |-> ids.n + 1, last |-> r]
                /\ IF r.raised
                    THEN run' = [run EXCEPT !.pc = r.error]
                    ELSE
                    \E metrics \in {MetricsStringParts(test_metrics,
                                                       r.value)} :
                    IF metrics.raised
                        THEN run' = [run EXCEPT !.pc = metrics.error]
                    ELSE
                    \E reported \in
                        {ReportPredictions(
                            [raised |-> FALSE,
                             lines |-> metrics.lines,
                             correlation_sets |-> run.correlation_sets,
                             model_ARIs |-> <<>>],
                            IF "predictions" \in DOMAIN test_metrics
                                THEN test_metrics.predictions ELSE <<>>,
                            run.prediction_included_strings,
                            run.prediction_excluded_strings,
                            metrics.model_lower_bound)} :
                    IF reported.raised
                        THEN run' = [run EXCEPT
                                !.pc = reported.error,
                                !.correlation_sets =
                                    reported.correlation_sets]
                    ELSE run' = [run EXCEPT
                            !.model = @ + 1,
                            !.correlation_sets = reported.correlation_sets,
                            !.comparisons =
                                DictSet(@, model_title.value,
                                    << <<"ID", PyStr(r.value)>>,
                                       <<"ELBO", metrics.model_lower_bound>>,
                                       <<"ARI",
                                         PyList(reported.model_ARIs)>> >>),
                            !.report =
                                Append(@, [data_set |-> data_set_name,
                                           model |-> model_name,
                                           ID |-> r.value,
                                           title |-> model_title.value,
                                           lines |-> reported.lines])]
    /\ UNCHANGED <<ms, walk, test_metrics_set, bv, tn>>

\* The models of the data set are done: `if len(comparisons) <= 1:
\* continue` goes on to the next data set, and with more rows the
\* correlations come next.
MainDataSetEnd ==
    /\ run.pc = "model"
    /\ run.model > Len(test_metrics_set[run.data_set][2])
    /\ IF Len(run.comparisons) <= 1
        THEN run' = [run EXCEPT !.pc = "data_set", !.data_set = @ + 1]
        ELSE run' = [run EXCEPT !.pc = "correlations"]
    /\ UNCHANGED <<ms, walk, test_metrics_set, bv, model_IDs, ids, tn>>

\* `if correlation_sets:` the correlation table, the plot of all the sets
\* and the printed table.
MainCorrelations ==
    /\ run.pc = "correlations"
    /\ \E correlation_table \in
                {CorrelationTable(<<>>, run.correlation_sets)},
          figure \in {plotCorrelations(run.correlation_sets)} :
          IF run.correlation_sets = <<>>
            THEN run' = [run EXCEPT !.pc = "fields"]
          ELSE IF correlation_table.raised
            THEN run' = [run EXCEPT !.pc = correlation_table.error]
          ELSE IF figure.raised
            THEN run' = [run EXCEPT !.pc = figure.error]
          ELSE run' = [run EXCEPT
                    !.pc = "fields",
                    !.printed = Append(@,
                        Printed(run.data_set, "correlations",
                                correlation_table.value))]
    /\ UNCHANGED <<ms, walk, test_metrics_set, bv, model_IDs, ids, tn>>

\* The fields of every row from its title, then the order of the rows.
MainComparisonFields ==
    /\ run.pc = "fields"
    /\ \E updated \in {UpdateComparisons(run.comparisons, 1)} :
       \E sorted_comparison_items \in
                {SortedComparisonItems(updated.comparisons)} :
          IF updated.raised
            THEN run' = [run EXCEPT !.pc = updated.error,
                                    !.comparisons = updated.comparisons]
          ELSE IF sorted_comparison_items.raised
            THEN run' = [run EXCEPT !.pc = sorted_comparison_items.error,
                                    !.comparisons = updated.comparisons]
          ELSE run' = [run EXCEPT
                    !.pc = "heat_map",
                    !.comparisons = updated.comparisons,
                    !.sorted_comparison_items =
                        sorted_comparison_items.value]
    /\ UNCHANGED <<ms, walk, test_metrics_set, bv, model_IDs, ids, tn>>

\* The selection of the rows of the heat map.
MainHeatMap ==
    /\ run.pc = "heat_map"
    /\ \E selection \in
                {HeatMapSelection([ELBOs |-> <<>>, epochs |-> <<>>],
                                  run.comparisons, run.epoch_cut_off)} :
          IF selection.raised
            THEN run' = [run EXCEPT
                    !.pc = selection.error,
                    !.network_architecture_ELBOs = selection.ELBOs,
                    !.network_architecture_epochs = selection.epochs]
          ELSE run' = [run EXCEPT
                    !.pc = "frame",
                    !.network_architecture_ELBOs = selection.ELBOs,
                    !.network_architecture_epochs = selection.epochs]
    /\ UNCHANGED <<ms, walk, test_metrics_set, bv, model_IDs, ids, tn>>

\* `if network_architecture_ELBOs:` the dict of the selection gives way to
\* the frame made of it, and the heat map is drawn of a frame of more than
\* one cell.
MainHeatMapFrame ==
    /\ run.pc = "frame"
    /\ IF run.network_architecture_ELBOs = <<>>
        THEN run' = [run EXCEPT !.pc = "format"]
        ELSE \E sorted \in {HeatMapFrame(run.network_architecture_ELBOs)} :
          IF sorted.raised
            THEN run' = [run EXCEPT
                    !.pc = sorted.error,
                    !.network_architecture_ELBOs = sorted.frame]
          ELSE IF /\ FrameSize(sorted.frame) > 1
                  /\ plotELBOHeatMap(sorted.frame).raised
            THEN run' = [run EXCEPT
                    !.pc = plotELBOHeatMap(sorted.frame).error,
                    !.network_architecture_ELBOs = sorted.frame]
          ELSE run' = [run EXCEPT
                    !.pc = "format",
                    !.network_architecture_ELBOs = sorted.frame]
    /\ UNCHANGED <<ms, walk, test_metrics_set, bv, model_IDs, ids, tn>>

\* The fields of the rows rewritten in place to the strings of the table.
MainFormatFields ==
    /\ run.pc = "format"
    /\ \E formatted \in {FormatComparisons(run.comparisons, 1)} :
        IF formatted.raised
            THEN run' = [run EXCEPT !.pc = formatted.error,
                                    !.comparisons = formatted.comparisons]
            ELSE run' = [run EXCEPT !.pc = "table",
                                    !.comparisons = formatted.comparisons]
    /\ UNCHANGED <<ms, walk, test_metrics_set, bv, model_IDs, ids, tn>>

\* The comparison table is made and printed, and the loop goes on to the
\* next data set.
MainComparisonTable ==
    /\ run.pc = "table"
    /\ run' = [run EXCEPT
            !.pc = "data_set",
            !.data_set = @ + 1,
            !.printed = Append(@,
                Printed(run.data_set, "comparison",
                        ComparisonTableRows(run.comparisons,
                                            run.sorted_comparison_items)))]
    /\ UNCHANGED <<ms, walk, test_metrics_set, bv, model_IDs, ids, tn>>

\* ------------------------------------------------ main: the runs checked

\* The metrics of a model as the training wrote them: a time stamp, the
\* epochs trained, the losses of the evaluation, one value for every
\* epoch, no accuracy, which is None without labels, and no statistics; and
\* the predictions if there are any, each in a file of its own.
TestMetricsOf(evaluation) ==
    [timestamp |-> PyFloat(1500000000, 1),
     evaluation |-> evaluation,
     accuracy |-> PyNone,
     superset_accuracy |-> PyNone,
     statistics |-> PyList(<<>>)]
        @@ ("number of epochs trained" :> PyInt(10))

TestMetrics(lower_bounds) ==
    TestMetricsOf(<< <<lower_bound_key, lower_bounds>> >>)

TestMetricsWithPredictions(lower_bounds, predictions) ==
    [predictions |-> predictions] @@ TestMetrics(lower_bounds)

TestMetricsWithoutLowerBound == TestMetricsOf(<<>>)

\* The lower bound of the j-th model of a run with many models: negative
\* halves that neither rise nor fall with j and come more than once.
LowerBoundOf(j) == PyFloat(0 - (((j * 3) % 7) + 101), 2)

\* The data sets of a disk in the order os.walk comes to them, each with
\* its models in that order, and never a data set without a model.
\* sizes[i] is the number of models of data set i.
MetricsSetOfSizes(sizes) ==
    [i \in 1..Len(sizes) |->
        <<DataSetName(i),
          [j \in 1..sizes[i] |->
                <<ModelName(j), TestMetrics(<<LowerBoundOf(j)>>)>>]>>]

\* The disk of a run: the results directory "R" of the working directory
\* and its data sets; what os.walk yields and how far the scan has come
\* are kept with it.
Disk(data_sets) ==
    [pc |-> "disk", directory |-> <<"R">>, data_sets |-> data_sets,
     yields |-> <<>>, position |-> 0]

\* main called with the results directory and the defaults: no filter, no
\* cut-off.  The locals of main are empty before main sets them.
MainCall(results_directory) ==
    [pc |-> "start",
     results_directory |-> results_directory,
     data_set_included_strings |-> <<>>,
     data_set_excluded_strings |-> <<>>,
     model_included_strings |-> <<>>,
     model_excluded_strings |-> <<>>,
     prediction_included_strings |-> <<>>,
     prediction_excluded_strings |-> <<>>,
     epoch_cut_off |-> inf,
     data_set |-> 1, model |-> 1,
     data_set_title |-> <<>>,
     comparisons |-> <<>>, correlation_sets |-> <<>>,
     sorted_comparison_items |-> <<>>,
     network_architecture_ELBOs |-> <<>>,
     network_architecture_epochs |-> <<>>,
     report |-> <<>>, printed |-> <<>>]

MainDefaults == MainCall(PyStr(<<"R">>))

\* Other ways to call main on a disk of two data sets: no results
\* directory, other names of the results directory, a directory that is
\* not there, and filters of data sets and of models.
OtherCalls ==
    {MainCall(PyNone), MainCall(PyStr(<<>>)),
     MainCall(PyStr(<<"R", "/">>)),
     MainCall(PyStr(<<".", "/", "R", "/", "/">>)),
     MainCall(PyStr(<<"R", "/", "x", "/", ".", ".">>)),
     MainCall(PyStr(<<"Q">>)),
     [MainDefaults EXCEPT !.data_set_excluded_strings = << <<"d", "1">> >>],
     [MainDefaults EXCEPT !.data_set_included_strings = << <<"x", "/">> >>,
                          !.model_included_strings = << <<"h", "_", "2">> >>],
     [MainDefaults EXCEPT !.model_excluded_strings = << <<"V", "A", "E">> >>]}

MainInputs ==
    {[data_sets |-> MetricsSetOfSizes(sizes), call |-> MainDefaults] :
        sizes \in SeqsUpTo({1, 2, MaxModels}, MaxDataSets)}
    \cup
    {[data_sets |-> MetricsSetOfSizes(<<2, 1>>), call |-> call] :
        call \in OtherCalls}

\* The models of the heat map: one architecture trained to four versions,
\* and another architecture of the same latent size.
HeatMapModelName(l, h, version) ==
    <<"V", "A", "E", "/", "g", "a", "u", "s", "s", "i", "a", "n", "/", "n",
      "e", "g", "a", "t", "i", "v", "e", "_", "b", "i", "n", "o", "m", "i",
      "a", "l", "/", "l", "_">>
        \o l \o <<"-", "h", "_">> \o h
        \o <<"/", "b", "n", "/", "e", "_">> \o version

HeatMapVersions ==
    {<<"5">>, <<"1", "0", "-", "E", "S">>, <<"3", "0">>,
     <<"2", "0", " ", "(", "*", ")">>}

\* The lower bound of a version: the number of its characters and of its
\* epochs tell the versions apart.
HeatMapModel(l, h, version) ==
    <<HeatMapModelName(l, h, version),
      TestMetrics(<<PyFloat(0 - 200,  1),
                    PyFloat(0 - (100 + 10 * Len(version)
                                  + DigitValue(version[1])), 4)>>)>>

HeatMapRows ==
    {HeatMapModel(<<"2">>, <<"1", "0", "0">>, version) :
        version \in HeatMapVersions}

HeatMapOtherRow ==
    HeatMapModel(<<"2">>, <<"1", "0", "0", "_", "5", "0">>, <<"1", "0">>)

\* A version whose tag is no key of version_rank.
HeatMapUnknownRow ==
    HeatMapModel(<<"2">>, <<"1", "0", "0">>, <<"5", "-", "x">>)

EpochCutOffs == {inf, PyInt(15)}

HeatMapInputs ==
    {[models |-> <<HeatMapOtherRow>> \o order,
      prediction_included_strings |-> <<>>,
      prediction_excluded_strings |-> <<>>,
      epoch_cut_off |-> epoch_cut_off] :
        order \in Orders(HeatMapRows), epoch_cut_off \in EpochCutOffs}
    \cup
    {[models |-> <<HeatMapOtherRow, HeatMapUnknownRow>>,
      prediction_included_strings |-> <<>>,
      prediction_excluded_strings |-> <<>>,
      epoch_cut_off |-> inf],
     [models |-> <<HeatMapUnknownRow,
                   HeatMapModel(<<"2">>, <<"1", "0", "0">>, <<"5">>)>>,
      prediction_included_strings |-> <<>>,
      prediction_excluded_strings |-> <<>>,
      epoch_cut_off |-> inf]}

\* Frames of more than one column: the latent size 10 met before the
\* latent size 2, hidden sizes met out of the order of their products,
\* architectures that no model has, two hidden sizes of one product, and
\* a frame of one cell.
FrameModels ==
    {<<HeatMapModel(<<"1", "0">>, <<"1", "0", "0">>, <<"5">>),
       HeatMapModel(<<"2">>, <<"1", "0", "0", "_", "5", "0">>, <<"3", "0">>),
       HeatMapModel(<<"2">>, <<"2", "0", "_", "1", "0">>,
                    <<"1", "0", "-", "E", "S">>)>>,
     <<HeatMapModel(<<"2">>, <<"2", "0", "_", "5">>, <<"5">>),
       HeatMapModel(<<"2">>, <<"1", "0", "0">>, <<"3", "0">>),
       HeatMapModel(<<"1", "0">>, <<"1", "0", "0">>,
                    <<"1", "0", "-", "E", "S">>)>>,
     <<HeatMapModel(<<"2">>, <<"1", "0", "0">>, <<"3", "0">>),
       <<ModelName(1), TestMetrics(<<PyFloat(0 - 5, 4)>>)>>>>}

FrameInputs ==
    {[models |-> models,
      prediction_included_strings |-> <<>>,
      prediction_excluded_strings |-> <<>>,
      epoch_cut_off |-> inf] : models \in FrameModels}

\* The predictions of three models: k-means with three classes and the
\* model's own prediction with two.
ARI_clusters == <<"A", "R", "I", " ", "(", "c", "l", "u", "s", "t", "e",
                  "r", "s", ")">>

ARI_superset == <<"A", "R", "I", " ", "(", "s", "u", "p", "e", "r", "s",
                  "e", "t", ")">>

kmeans == <<"k", "m", "e", "a", "n", "s">>

Prediction(method, number_of_classes, clusters, superset) ==
    << <<prediction_method_key, method>>,
       <<number_of_classes_key, PyInt(number_of_classes)>>,
       <<ARI_clusters, clusters>>,
       <<ARI_superset, superset>> >>

PredictionModels ==
    << <<ModelName(1),
         TestMetricsWithPredictions(<<PyFloat(0 - 205, 2)>>,
            << <<<<"a">>, Prediction(PyStr(kmeans), 3, PyFloat(1, 2),
                                     PyFloat(1, 4))>>,
               <<<<"b">>, Prediction(PyNone, 2, PyFloat(1, 4),
                                     PyNone)>> >>)>>,
       <<ModelName(2),
         TestMetricsWithPredictions(<<PyFloat(0 - 201, 2)>>,
            << <<<<"a">>, Prediction(PyStr(kmeans), 3, PyFloat(3, 4),
                                     PyNone)>> >>)>>,
       <<ModelName(3),
         TestMetricsWithPredictions(<<PyFloat(0 - 203, 2)>>,
            << <<<<"a">>, Prediction(PyStr(kmeans), 3, PyFloat(0, 1),
                                     PyFloat(0 - 1, 8))>> >>)>>,
       <<ModelName(4), TestMetrics(<<PyFloat(0 - 207, 2)>>)>> >>

PredictionIncludedStrings ==
    {<<>>, <<kmeans>>, <<clusters_word>>, <<kmeans, <<"(", "2">>>>,
     <<<<"m", "o", "d", "e", "l">>>>}

PredictionExcludedStrings ==
    {<<>>, <<kmeans>>, <<<<"s", "u", "p", "e", "r">>>>}

PredictionInputs ==
    {[models |-> PredictionModels,
      prediction_included_strings |-> included,
      prediction_excluded_strings |-> excluded,
      epoch_cut_off |-> inf] :
        included \in PredictionIncludedStrings,
        excluded \in PredictionExcludedStrings}
    \cup
    {[models |-> SubSeq(PredictionModels, 1, 1),
      prediction_included_strings |-> <<>>,
      prediction_excluded_strings |-> <<>>,
      epoch_cut_off |-> inf]}

\* The lower bounds of other types and values: a numpy.float32, zero or
\* not, the float zero, an int, the lower bound of the other model, and no
\* lower bound at all.
LowerBoundValues ==
    {<<PyFloat32(0 - 3, 2)>>, <<PyFloat32(0, 1)>>, <<PyFloat(0, 1)>>,
     <<PyInt(0 - 7)>>, <<PyInt(0)>>, <<PyFloat(0 - 5, 4)>>}

\* Lower bounds that are no finite numbers: runs of three models whose
\* lower bounds have a nan between two numbers, before them, after them
\* and twice, and the two infinities.
NonFiniteLowerBounds ==
    {<<PyFloat(1, 1), PyNaN, PyFloat(2, 1)>>,
     <<PyNaN, PyFloat(1, 1), PyFloat(2, 1)>>,
     <<PyFloat(2, 1), PyFloat(1, 1), PyNaN>>,
     <<PyNaN, PyFloat(0 - 5, 4), PyNaN>>,
     <<negative_inf, PyFloat(1, 1), inf>>}

NonFiniteInputs ==
    {[models |-> [k \in 1..3 |->
                    <<ModelName(k), TestMetrics(<<lower_bounds[k]>>)>>],
      prediction_included_strings |-> <<>>,
      prediction_excluded_strings |-> <<>>,
      epoch_cut_off |-> inf] : lower_bounds \in NonFiniteLowerBounds}

LowerBoundInputs ==
    {[models |-> <<<<ModelName(1), TestMetrics(lower_bounds)>>,
                   <<ModelName(2), TestMetrics(<<PyFloat(0 - 5, 4)>>)>>>>,
      prediction_included_strings |-> <<>>,
      prediction_excluded_strings |-> <<>>,
      epoch_cut_off |-> inf] : lower_bounds \in LowerBoundValues}
    \cup
    {[models |-> <<<<ModelName(1), TestMetrics(<<PyFloat(0 - 5, 4)>>)>>,
                   <<ModelName(2), TestMetricsWithoutLowerBound>>>>,
      prediction_included_strings |-> <<>>,
      prediction_excluded_strings |-> <<>>,
      epoch_cut_off |-> inf],
     [models |-> <<<<ModelName(1), TestMetricsWithoutLowerBound>>>>,
      prediction_included_strings |-> <<>>,
      prediction_excluded_strings |-> <<>>,
      epoch_cut_off |-> inf]}

\* Model names whose titles have one, three, four and seven segments, two
\* names of one title, and a name with a digit outside ASCII; a run has two
\* of them.
TitleModelNames ==
    {<<"m", "1">>,
     <<"V", "A", "E", "-", "g", "a", "u", "s", "s", "i", "a", "n", "-", "p",
       "o", "i", "s", "s", "o", "n">>,
     <<"V", "A", "E", "-", "g", "a", "u", "s", "s", "i", "a", "n", "-", "p",
       "o", "i", "s", "s", "o", "n", "-", "e", "_", "5">>,
     <<"V", "A", "E", "-", "g", "a", "u", "s", "s", "i", "a", "n", "-", "n",
       "e", "g", "a", "t", "i", "v", "e", "_", "b", "i", "n", "o", "m", "i",
       "a", "l", "-", "l", "_", "2", "-", "h", "_", "1", "0", "0", "-", "b",
       "n", "-", "w", "u", "_", "5", "-", "e", "_", "2", "0">>,
     <<"V", "A", "E", "/", "g", "a", "u", "s", "s", "i", "a", "n", "/", "p",
       "o", "i", "s", "s", "o", "n", "/", "l", "_", "2", "-", "h", "_", "9",
       "/", "e", "_", "1", "0">>,
     <<"V", "A", "E", "/", "g", "a", "u", "s", "s", "i", "a", "n", "/", "p",
       "o", "i", "s", "s", "o", "n", "/", "l", "_", "2", "-", "h", "_", "9",
       "/", "e", "_", "1", "0", "-", "m", "c", "_", "1">>,
     \* "VAE/gaussian/poisson/l_\u0662-h_100/e_10", of an Arabic-Indic digit
     <<"V", "A", "E", "/", "g", "a", "u", "s", "s", "i", "a", "n", "/", "p",
       "o", "i", "s", "s", "o", "n", "/", "l", "_", "U+0662", "-", "h", "_",
       "1", "0", "0", "/", "e", "_", "1", "0">>}

TitleInputs ==
    {[models |-> <<<<names[1], TestMetrics(<<PyFloat(0 - 9, 4)>>)>>,
                   <<names[2], TestMetrics(<<PyFloat(0 - 7, 4)>>)>>>>,
      prediction_included_strings |-> <<>>,
      prediction_excluded_strings |-> <<>>,
      epoch_cut_off |-> inf] :
        names \in {pair \in TitleModelNames \X TitleModelNames :
                        pair[1] # pair[2]}}

\* Metrics of every kind main reads: the losses in another order than
\* main lists them, accuracies, statistics and predictions.
kl_divergence_key == losses[4]

log_likelihood_key == losses[1]

StatisticsSet(name) ==
    << <<name_key, name>>, <<<<"m", "e", "a", "n">>, PyFloat(1, 2)>> >>

statistics_names ==
    <<
      <<"r", "e", "c", "o", "n", "s", "t", "r", "u", "c", "t", "e", "d">>,
      <<"o", "r", "i", "g", "i", "n", "a", "l">>,
      <<"x", " ", "(", "r", "e", "c", "o", "n", "s", "t", "r", "u", "c",
        "t", "e", "d", ";", " ", "m", "e", "a", "n", ")">>
    >>

FullMetrics ==
    [TestMetricsWithPredictions(<<PyFloat(0 - 205, 2)>>,
        << <<<<"a">>, Prediction(PyStr(kmeans), 3, PyFloat(1, 2),
                                 PyFloat(1, 4))>>,
           <<<<"b">>, Prediction(PyNone, 2, PyFloat(1, 4), PyNone)>> >>)
     EXCEPT
        !.timestamp = PyFloat(300000001, 2),
        !.evaluation =
            << <<kl_divergence_key, <<PyFloat(7, 2), PyFloat(123457, 1000)>> >>,
               <<lower_bound_key, <<PyFloat(0 - 205, 2), PyFloat(0 - 204, 2)>> >>,
               <<<<"o", "t", "h", "e", "r">>, <<PyNone>> >>,
               <<log_likelihood_key, <<PyFloat32(0 - 807, 8)>> >> >>,
        !.accuracy = PyList(<<PyFloat(1, 2), PyFloat(1235, 10000)>>),
        !.superset_accuracy = PyList(<<PyFloat32(5, 8)>>),
        !.statistics =
            PyList(<<StatisticsSet(PyStr(statistics_names[1])),
                     StatisticsSet(PyStr(statistics_names[2])),
                     StatisticsSet(PyStr(statistics_names[3]))>>)]

\* A dict without one of its keys.
Without(test_metrics, key) ==
    [k \in DOMAIN test_metrics \ {key} |-> test_metrics[k]]

\* Metrics that the training does not write: a value that is no number, a
\* list of no value, a key that is not there.
MetricsVariants ==
    {FullMetrics,
     [FullMetrics EXCEPT !.evaluation =
        << <<lower_bound_key, <<PyFloat(0 - 102, 1), PyNone>> >> >>],
     [FullMetrics EXCEPT !.evaluation =
        << <<lower_bound_key, <<PyFloat(0 - 102, 1)>> >>,
           <<kl_divergence_key, <<PyNone>> >> >>],
     [FullMetrics EXCEPT !.evaluation =
        << <<lower_bound_key, <<PyStr(<<"x">>)>> >> >>],
     [FullMetrics EXCEPT !.evaluation =
        << <<lower_bound_key, <<PyList(<<>>)>> >> >>],
     [FullMetrics EXCEPT !.evaluation =
        << <<lower_bound_key, <<PyInt(0 - 3)>> >>,
           <<kl_divergence_key, <<PyBool(TRUE)>> >> >>],
     [FullMetrics EXCEPT !.evaluation =
        << <<lower_bound_key, <<>> >> >>],
     Without(FullMetrics, "timestamp"),
     Without(FullMetrics, "number of epochs trained"),
     Without(FullMetrics, "evaluation"),
     Without(FullMetrics, "statistics"),
     Without(Without(FullMetrics, "accuracy"), "superset_accuracy"),
     [FullMetrics EXCEPT !["number of epochs trained"] = PyFloat(21, 2)],
     [FullMetrics EXCEPT !["number of epochs trained"] = PyNone],
     [FullMetrics EXCEPT !.accuracy = PyList(<<PyNone>>)],
     [FullMetrics EXCEPT !.accuracy = PyList(<<PyStr(<<"a">>)>>)],
     [FullMetrics EXCEPT !.accuracy = PyList(<<PyList(<<>>)>>)],
     [FullMetrics EXCEPT !.accuracy = PyList(<<PyInt(1)>>)],
     [FullMetrics EXCEPT !.accuracy = PyList(<<PyFloat(0 - 1, 3)>>)],
     [FullMetrics EXCEPT !.accuracy = PyList(<<>>)],
     [FullMetrics EXCEPT !.accuracy = PyStr(<<"a", "b">>)],
     [FullMetrics EXCEPT !.accuracy = PyFloat(1, 2)],
     [FullMetrics EXCEPT !.accuracy = PyInt(0)],
     [FullMetrics EXCEPT !.accuracy = PyDict(<< <<<<"a">>, PyInt(1)>> >>)],
     [FullMetrics EXCEPT !.accuracy = PyDict(<<>>)],
     [FullMetrics EXCEPT !.superset_accuracy = PyList(<<PyNone>>)],
     [FullMetrics EXCEPT !.superset_accuracy =
        PyList(<<PyFloat32(1, 3), PyFloat32(11184811, 131072)>>)],
     [FullMetrics EXCEPT !.statistics = PyNone],
     [FullMetrics EXCEPT !.statistics =
        PyDict(StatisticsSet(PyStr(statistics_names[1])))],
     [FullMetrics EXCEPT !.statistics =
        PyList(<<StatisticsSet(PyStr(statistics_names[1]))>>)],
     [FullMetrics EXCEPT !.statistics =
        PyList(<<StatisticsSet(PyStr(statistics_names[2])),
                 << <<<<"m", "e", "a", "n">>, PyFloat(1, 2)>> >> >>)],
     [FullMetrics EXCEPT !.statistics =
        PyList(<<StatisticsSet(PyStr(statistics_names[2])),
                 StatisticsSet(PyNone)>>)],
     [FullMetrics EXCEPT !.statistics =
        PyList(<<StatisticsSet(PyList(<<PyStr(reconstructed_word)>>)),
                 StatisticsSet(PyList(<<PyStr(statistics_names[2])>>))>>)],
     [FullMetrics EXCEPT !.statistics =
        PyList(<<StatisticsSet(
                    PyDict(<< <<reconstructed_word, PyInt(1)>> >>))>>)],
     [FullMetrics EXCEPT !.predictions =
        << <<<<"a">>, Prediction(PyList(<<PyStr(<<"a", "'", "b">>)>>), 3,
                                 PyFloat(1, 2), PyFloat(1, 4))>>,
           <<<<"b">>, Prediction(PyDict(<< <<<<"\"">>, PyStr(<<"\t">>)>> >>),
                                 2, PyFloat(1, 4), PyNone)>> >>],
     [FullMetrics EXCEPT !.predictions =
        << <<<<"a">>, Prediction(PyStr(kmeans), 3, PyFloat(1, 2),
                                 PyFloat(1, 4))>>,
           <<<<"b">>, Prediction(PyNone, 2, PyFloat(1, 4),
                                 PyStr(<<"x">>))>> >>],
     [FullMetrics EXCEPT !.predictions =
        << <<<<"a">>, Prediction(PyStr(kmeans), 3, PyList(<<>>),
                                 PyFloat(1, 4))>> >>],
     [FullMetrics EXCEPT !.predictions =
        << <<<<"a">>, Prediction(PyStr(kmeans), 3, PyFloat(1, 2),
                                 PyFloat(1, 4))>>,
           <<<<"b">>, << <<prediction_method_key, PyStr(kmeans)>>,
                         <<ARI_clusters, PyFloat(1, 2)>> >> >> >>],
     [FullMetrics EXCEPT !.predictions =
        << <<<<"a">>, << <<ARI_clusters, PyInt(1)>>,
                         <<number_of_classes_key, PyNone>>,
                         <<prediction_method_key, PyInt(7)>>,
                         <<<<"A", "R", "I">>, PyBool(TRUE)>> >> >> >>]}

MetricsInputs ==
    {[models |-> << <<ModelName(1),
                      TestMetricsWithPredictions(<<PyFloat(0 - 201, 2)>>,
                        << <<<<"a">>, Prediction(PyStr(kmeans), 3,
                                                 PyFloat(3, 4), PyNone)>> >>)>>,
                    <<ModelName(2), test_metrics>>,
                    <<ModelName(3), TestMetrics(<<PyFloat(0 - 203, 2)>>)>> >>,
      prediction_included_strings |-> <<>>,
      prediction_excluded_strings |-> <<>>,
      epoch_cut_off |-> inf] : test_metrics \in MetricsVariants}

ReportInputs ==
    HeatMapInputs \cup FrameInputs \cup PredictionInputs
        \cup LowerBoundInputs \cup NonFiniteInputs
        \cup TitleInputs \cup MetricsInputs

\* ---------------------------------------------------------- idle values

WalkIdle == [pc |-> "idle"]

BvIdle == [pc |-> "idle"]

RunIdle == [pc |-> "idle"]

TnIdle == [pc |-> "idle"]

InitMatch ==
    /\ ms \in MatchCalls
    /\ walk = WalkIdle
    /\ test_metrics_set = <<>>
    /\ bv = BvIdle
    /\ model_IDs = 0
    /\ ids = IdsNone
    /\ run = RunIdle
    /\ tn = TnIdle

NextMatch == CallMatchString

SpecMatch == InitMatch /\ [][NextMatch]_vars

InitVersion ==
    /\ ms = MsIdle
    /\ walk = WalkIdle
    /\ test_metrics_set = <<>>
    /\ bv \in BvCalls
    /\ model_IDs = 0
    /\ ids = IdsNone
    /\ run = RunIdle
    /\ tn = TnIdle

NextVersion == CallBestModelVersion

SpecVersion == InitVersion /\ [][NextVersion]_vars

InitGenerator ==
    /\ ms = MsIdle
    /\ walk = WalkIdle
    /\ test_metrics_set = <<>>
    /\ bv = BvIdle
    /\ model_IDs = 0
    /\ ids = IdsNone
    /\ run = RunIdle
    /\ tn = TnIdle

NextGenerator == NextModelID

SpecGenerator == InitGenerator /\ [][NextGenerator]_vars

InitMain ==
    /\ ms = MsIdle
    /\ test_metrics_set = <<>>
    /\ bv = BvIdle
    /\ model_IDs = 0
    /\ ids = IdsNone
    /\ tn = TnIdle
    /\ \E input \in MainInputs :
        /\ walk = Disk(input.data_sets)
        /\ run = input.call

NextMain ==
    \/ MainStart
    \/ MainScan
    \/ MainScanned
    \/ MainDataSet
    \/ MainModel
    \/ MainDataSetEnd
    \/ MainCorrelations
    \/ MainComparisonFields
    \/ MainHeatMap
    \/ MainHeatMapFrame
    \/ MainFormatFields
    \/ MainComparisonTable

SpecMain == InitMain /\ [][NextMain]_vars

\* Runs of main over one data set, with prediction filters and a cut-off.
InitReport ==
    /\ ms = MsIdle
    /\ test_metrics_set = <<>>
    /\ bv = BvIdle
    /\ model_IDs = 0
    /\ ids = IdsNone
    /\ tn = TnIdle
    /\ \E input \in ReportInputs :
        /\ walk = Disk(<<<<DataSetName(1), input.models>>>>)
        /\ run = [MainDefaults EXCEPT
                    !.prediction_included_strings =
                        input.prediction_included_strings,
                    !.prediction_excluded_strings =
                        input.prediction_excluded_strings,
                    !.epoch_cut_off = input.epoch_cut_off]

SpecReport == InitReport /\ [][NextMain]_vars

InitTitle ==
    /\ ms = MsIdle
    /\ walk = WalkIdle
    /\ test_metrics_set = <<>>
    /\ bv = BvIdle
    /\ model_IDs = 0
    /\ ids = IdsNone
    /\ run = RunIdle
    /\ tn \in TitleCalls

NextTitle ==
    \/ TitleEnter
    \/ TitleEntry
    \/ TitleNextTable
    \/ TitleTablesDone
    \/ TitleSlash
    \/ TitleDash
    \/ TitleUnderscore

SpecTitle == InitTitle /\ [][NextTitle]_vars

InitDataSetTitle ==
    /\ ms = MsIdle
    /\ walk = WalkIdle
    /\ test_metrics_set = <<>>
    /\ bv = BvIdle
    /\ model_IDs = 0
    /\ ids = IdsNone
    /\ run = RunIdle
    /\ \E name \in DataSetNames :
        tn = [pc |-> "titleFromDataSetName", name |-> name]

NextDataSetTitle == TitleFromDataSetName \/ NextTitle

SpecDataSetTitle == InitDataSetTitle /\ [][NextDataSetTitle]_vars

\* A scan starts with an empty mapping at the results directory; `last` is
\* the directory of the last pass and `metrics_found` the directories seen
\* to hold the metrics file.
InitScan ==
    /\ ms = MsIdle
    /\ \E args \in ScanArguments :
        walk = [pc |-> "walk", args |-> args,
                pending |-> <<args.results_directory>>,
                last |-> [path |-> <<>>, filenames |-> <<>>],
                metrics_found |-> {}]
    /\ test_metrics_set = <<>>
    /\ bv = BvIdle
    /\ model_IDs = 0
    /\ ids = IdsNone
    /\ run = RunIdle
    /\ tn = TnIdle

NextScan == WalkDirectory \/ WalkReturn

SpecScan == InitScan /\ [][NextScan]_vars

\* ------------------------------------------------------------------ C1

\* C1: matchString(s, included, excluded) is truthy iff every member of
\* included is a substring of s and no member of excluded is; with both
\* lists empty every string matches, and with excluded empty the result
\* depends only on the members of included occurring in s.
C1_MatchIffAllIncludedNoneExcluded ==
    ms.pc = "done" =>
        /\ Truthy(ms.result) <=>
            /\ \A i \in 1..Len(ms.included_strings) :
                    IsSubstring(ms.included_strings[i], ms.string)
            /\ \A i \in 1..Len(ms.excluded_strings) :
                    ~IsSubstring(ms.excluded_strings[i], ms.string)
        /\ (ms.included_strings = <<>> /\ ms.excluded_strings = <<>>)
                => Truthy(ms.result)
        /\ ms.excluded_strings = <<>> =>
                (Truthy(ms.result) <=>
                    \A i \in 1..Len(ms.included_strings) :
                        IsSubstring(ms.included_strings[i], ms.string))

\* A call with two excluded strings of which only the first occurs, and an
\* included string that occurs: the result is falsy.
C1_Witness ==
    /\ ms.pc = "done"
    /\ Len(ms.excluded_strings) = 2
    /\ Len(ms.included_strings) >= 1
    /\ \A i \in 1..Len(ms.included_strings) :
            IsSubstring(ms.included_strings[i], ms.string)
    /\ IsSubstring(ms.excluded_strings[1], ms.string)
    /\ ~IsSubstring(ms.excluded_strings[2], ms.string)
    /\ ~Truthy(ms.result)

\* ------------------------------------------------------------ C4, C5, C6

\* The rank the specification gives a tag: default 0, "(ES)" -1, "(*)" 2.
ClaimedRank(tag) ==
    CASE tag = <<>> -> 0
      [] tag = <<"(", "E", "S", ")">> -> 0 - 1
      [] tag = <<"(", "*", ")">> -> 2

Recognized(tag) ==
    tag \in {<<>>, <<"(", "E", "S", ")">>, <<"(", "*", ")">>}

\* C4: for two well-formed labels bestModelVersion returns the label of
\* higher rank (default 0, "(ES)" -1, "(*)" 2), on equal ranks the label
\* with more epochs, and on equal rank and epochs the first argument; so
\* ("20", "15") and ("20", "20") give "20", and ("30 (ES)", "10") gives "10".
C4_HigherRankThenEpochsThenFirst ==
    (bv.pc = "done" /\ Recognized(bv.t1) /\ Recognized(bv.t2)) =>
        /\ ~bv.result.raised
        /\ bv.result.value =
            IF ClaimedRank(bv.t1) > ClaimedRank(bv.t2) THEN bv.ev1
            ELSE IF ClaimedRank(bv.t2) > ClaimedRank(bv.t1) THEN bv.ev2
            ELSE IF bv.e1 > bv.e2 THEN bv.ev1
            ELSE IF bv.e2 > bv.e1 THEN bv.ev2
            ELSE bv.ev1
        /\ (bv.ev1 = <<"2", "0">> /\ bv.ev2 = <<"1", "5">>)
                => bv.result.value = <<"2", "0">>
        /\ (bv.ev1 = <<"2", "0">> /\ bv.ev2 = <<"2", "0">>)
                => bv.result.value = <<"2", "0">>
        /\ (bv.ev1 = <<"3", "0", " ", "(", "E", "S", ")">>
                /\ bv.ev2 = <<"1", "0">>)
                => bv.result.value = <<"1", "0">>

\* An early-stopped label with more epochs loses to an untagged one.
C4_Witness ==
    /\ bv.pc = "done"
    /\ bv.ev1 = <<"3", "0", " ", "(", "E", "S", ")">>
    /\ bv.ev2 = <<"1", "0">>
    /\ ~bv.result.raised
    /\ bv.result.value = bv.ev2

\* C5 as stated: bestModelVersion("10 epochs", "5 (*)") returns "5 (*)".
C5_Original ==
    (/\ bv.pc = "done"
     /\ bv.ev1 = <<"1", "0", " ", "e", "p", "o", "c", "h", "s">>
     /\ bv.ev2 = <<"5", " ", "(", "*", ")">>) =>
        /\ ~bv.result.raised
        /\ bv.result.value = <<"5", " ", "(", "*", ")">>

\* C5, amended: bestModelVersion("10 epochs", "5 (*)") raises a KeyError
\* ("epochs" is no key of version_rank) and returns nothing; with the first
\* label written "10" it returns "5 (*)": the best-checkpoint label outranks
\* the higher epoch count.
C5_EpochsSuffixRaisesBareCountLoses ==
    /\ (/\ bv.pc = "done"
        /\ bv.ev1 = <<"1", "0", " ", "e", "p", "o", "c", "h", "s">>
        /\ bv.ev2 = <<"5", " ", "(", "*", ")">>) =>
            /\ bv.result.raised
            /\ bv.result.error = "KeyError"
    /\ (/\ bv.pc = "done"
        /\ bv.ev1 = <<"1", "0">>
        /\ bv.ev2 = <<"5", " ", "(", "*", ")">>) =>
            /\ ~bv.result.raised
            /\ bv.result.value = <<"5", " ", "(", "*", ")">>

C5_Witness ==
    /\ bv.pc = "done"
    /\ bv.ev1 = <<"1", "0", " ", "e", "p", "o", "c", "h", "s">>
    /\ bv.ev2 = <<"5", " ", "(", "*", ")">>
    /\ bv.result.raised

\* C6: bestModelVersion raises a KeyError and returns nothing whenever
\* either label is an epoch count followed by a tag other than "(ES)" and
\* "(*)", and raises no KeyError when both labels are in one of the three
\* recognized forms.
C6_KeyErrorIffUnrecognizedTag ==
    bv.pc = "done" =>
        /\ (~Recognized(bv.t1) \/ ~Recognized(bv.t2)) =>
                (bv.result.raised /\ bv.result.error = "KeyError")
        /\ (Recognized(bv.t1) /\ Recognized(bv.t2)) => ~bv.result.raised

\* ------------------------------------------------------------------ C7, C8

\* The n-th label in Cartesian-product order over 0-9, A-Z with the digit
\* pairs left out, in closed form: a digit is followed by the 26 letters, a
\* letter by all 36 characters.
ClaimedLabel(n) ==
    IF n <= 10 * 26
        THEN <<Digits[((n - 1) \div 26) + 1],
               ascii_uppercase[((n - 1) % 26) + 1]>>
        ELSE <<ascii_uppercase[((n - 10 * 26 - 1) \div 36) + 1],
               (Digits \o ascii_uppercase)[((n - 10 * 26 - 1) % 36) + 1]>>

InAlphabet(c) ==
    \/ \E i \in 1..10 : Digits[i] = c
    \/ \E i \in 1..26 : ascii_uppercase[i] = c

\* C7: every label modelID yields is two characters of 0-9, A-Z, never two
\* digits; the labels come in Cartesian-product order with the digit pairs
\* skipped: the first 26 are "0A" .. "0Z" and the 27th is "1A".
C7_LabelsInProductOrderNoDigitPairs ==
    (ids.n >= 1 /\ ~ids.last.raised) =>
        /\ Len(ids.last.value) = 2
        /\ InAlphabet(ids.last.value[1]) /\ InAlphabet(ids.last.value[2])
        /\ ~(IsDigitChar(ids.last.value[1]) /\ IsDigitChar(ids.last.value[2]))
        /\ ids.last.value = ClaimedLabel(ids.n)
        /\ ids.n <= 26 => ids.last.value = <<"0", ascii_uppercase[ids.n]>>
        /\ ids.n = 27 => ids.last.value = <<"1", "A">>

\* The 27th label is "1A".
C7_Witness ==
    /\ ids.n = 27
    /\ ~ids.last.raised
    /\ ids.last.value = <<"1", "A">>

\* C8 as stated: every request for the next label returns a label.
C8_Original == ids.n >= 1 => ~ids.last.raised

\* C8, amended: the generator is a finite sequence of 36 * 36 - 10 * 10 =
\* 1196 labels: the n-th request returns a label for 1 <= n <= 1196, and the
\* 1197th raises StopIteration.
C8_LabelsUntilProductIsUsedUp ==
    /\ (ids.n >= 1 /\ ids.n <= 36 * 36 - 10 * 10) => ~ids.last.raised
    /\ ids.n > 36 * 36 - 10 * 10 =>
            (ids.last.raised /\ ids.last.error = "StopIteration")
    /\ ids.n <= 36 * 36 - 10 * 10 + 1

\* The request after the last label "ZZ".
C8_Witness ==
    /\ ids.n = 36 * 36 - 10 * 10 + 1
    /\ ids.last.raised

\* ------------------------------------------------------------------ C9

\* The place of a character in 0-9, A-Z and of a label in the generator's
\* order.
AlphabetIndex(c) ==
    CHOOSE i \in 1..36 : (Digits \o ascii_uppercase)[i] = c

LabelOrder(label) == 36 * AlphabetIndex(label[1]) + AlphabetIndex(label[2])

RECURSIVE EncounterOrder(_)
\* The (data set, model) pairs of a mapping in the order its loops meet them.
EncounterOrder(set) ==
    IF set = <<>> THEN <<>>
    ELSE [j \in 1..Len(Head(set)[2]) |-> <<Head(set)[1], Head(set)[2][j][1]>>]
            \o EncounterOrder(Tail(set))

\* C9: in a run of main the k-th model met gets the k-th label of one
\* generator: two models of one data set, and two models of the run, never
\* share an ID, and a model met later has a label later in the generator's
\* order.
C9_OneGeneratorInEncounterOrder ==
    run.pc # "start" =>
        /\ \A k \in 1..Len(run.report) :
            /\ <<run.report[k].data_set, run.report[k].model>>
                    = EncounterOrder(test_metrics_set)[k]
            /\ run.report[k].ID = ClaimedLabel(k)
        /\ \A i, j \in 1..Len(run.report) :
                i < j => /\ run.report[i].ID # run.report[j].ID
                         /\ LabelOrder(run.report[i].ID)
                                < LabelOrder(run.report[j].ID)
        /\ \A i, j \in 1..Len(run.comparisons) :
                i # j => DictGet(run.comparisons[i][2], "ID")
                            # DictGet(run.comparisons[j][2], "ID")
        /\ run.pc = "done" =>
                Len(run.report) = Len(EncounterOrder(test_metrics_set))

\* A finished run over three data sets of at least two models each.
C9_Witness ==
    /\ run.pc = "done"
    /\ Len(test_metrics_set) = 3
    /\ \A d \in 1..3 : Len(test_metrics_set[d][2]) >= 2
    /\ Len(run.report) >= 6
    /\ run.report[Len(run.report)].data_set = DataSetName(3)

\* ----------------------------------------------------------------- C10

RECURSIVE AllEntries(_)
\* The entries of a list of tables, table after table, each in its order.
AllEntries(tables) ==
    IF tables = <<>> THEN <<>> ELSE Head(tables) \o AllEntries(Tail(tables))

RECURSIVE AppliedInOrder(_, _)
\* The string after the entries were applied one after the other, each to
\* the result of those before it.
AppliedInOrder(entries, name) ==
    IF entries = <<>> THEN name
    ELSE ApplyEntry(entries[Len(entries)],
                    AppliedInOrder(SubSeq(entries, 1, Len(entries) - 1),
                                   name))

\* The entries applied when the loops stand at entry j of table i.
EntriesBefore(tables, i, j) ==
    AllEntries(SubSeq(tables, 1, i - 1))
        \o (IF i <= Len(tables) THEN SubSeq(tables[i], 1, j - 1) ELSE <<>>)

\* C10: titleFromName applies the tables in list order and the entries of a
\* table in the table's order, each to the current, already substituted
\* string; only then does it replace "/" by "; ", then "-" by "; ", then
\* "_" by " ".  With no tables the result is the input with these three
\* substitutions.
C10_TablesInOrderThenPunctuation ==
    /\ tn.pc = "tables" =>
        tn.name = AppliedInOrder(
                    EntriesBefore(tn.replacement_dictionaries, tn.i, tn.j),
                    tn.given)
    /\ tn.pc = "slash" =>
        tn.name = AppliedInOrder(AllEntries(tn.replacement_dictionaries),
                                 tn.given)
    /\ tn.pc = "dash" =>
        tn.name = StrReplace(
                    AppliedInOrder(AllEntries(tn.replacement_dictionaries),
                                   tn.given),
                    <<"/">>, <<";", " ">>)
    /\ tn.pc = "underscore" =>
        tn.name = StrReplace(StrReplace(
                    AppliedInOrder(AllEntries(tn.replacement_dictionaries),
                                   tn.given),
                    <<"/">>, <<";", " ">>), <<"-">>, <<";", " ">>)
    /\ tn.pc = "done" =>
        /\ tn.name = StrReplace(StrReplace(StrReplace(
                    AppliedInOrder(AllEntries(tn.replacement_dictionaries),
                                   tn.given),
                    <<"/">>, <<";", " ">>), <<"-">>, <<";", " ">>),
                    <<"_">>, <<" ">>)
        /\ tn.replacement_dictionaries = <<>> =>
            tn.name = StrReplace(StrReplace(StrReplace(tn.given,
                    <<"/">>, <<";", " ">>), <<"-">>, <<";", " ">>),
                    <<"_">>, <<" ">>)

\* A finished call with two tables whose order decides the result: the
\* second table rewrites what the first produced ("ab" to "/a" to "/a-"),
\* and the punctuation pass rewrites what the tables produced.
C10_Witness ==
    /\ tn.pc = "done"
    /\ tn.given = <<"a", "b">>
    /\ tn.replacement_dictionaries = <<TableMark, TableSwap>>
    /\ tn.name # AppliedInOrder(AllEntries(<<TableSwap, TableMark>>),
                                tn.given)
    /\ tn.name = <<";", " ", "a", ";", " ">>

\* -------------------------------------------------------------- C2, C3

\* The segments of a walked path below the results directory.
SegmentsBelowRoot(path) ==
    SplitOn(SubSeq(path, Len(walk.args.results_directory) + 1, Len(path)),
            sep)

\* The data-set identifier the specification names: the first three
\* segments below the root; the model identifier: the remaining ones.
ClaimedDataSet(path) ==
    LET segments == SegmentsBelowRoot(path) IN
    Join(sep, SubSeq(segments, 1,
                     IF Len(segments) < 3 THEN Len(segments) ELSE 3))

ClaimedModel(path) ==
    LET segments == SegmentsBelowRoot(path) IN
    Join(sep, SubSeq(segments, 4, Len(segments)))

\* A string passes a filter pair.
Passes(string, included, excluded) ==
    /\ \A i \in 1..Len(included) : IsSubstring(included[i], string)
    /\ \A i \in 1..Len(excluded) : ~IsSubstring(excluded[i], string)

PassesFilters(path) ==
    /\ Passes(ClaimedDataSet(path), walk.args.data_set_included_strings,
              walk.args.data_set_excluded_strings)
    /\ Passes(ClaimedModel(path), walk.args.model_included_strings,
              walk.args.model_excluded_strings)

HasEntry(set, data_set, model) ==
    \E i \in 1..Len(set) :
        /\ set[i][1] = data_set
        /\ \E j \in 1..Len(set[i][2]) : set[i][2][j][1] = model

\* C2: after the walk the mapping has an entry for (data set, model) iff
\* the directory with these identifiers (the first three segments below the
\* root, and the remaining segments) holds the metrics file and both
\* identifiers pass their filters; a pair without a metrics file is absent,
\* and no data set is present with an empty model mapping.
C2_EntryIffMetricsFileAndFiltersPass ==
    walk.pc = "done" =>
        /\ \A path \in walk.metrics_found :
                PassesFilters(path) =>
                    HasEntry(test_metrics_set, ClaimedDataSet(path),
                             ClaimedModel(path))
        /\ \A i \in 1..Len(test_metrics_set) :
           \A j \in 1..Len(test_metrics_set[i][2]) :
                \E path \in walk.metrics_found :
                    /\ ClaimedDataSet(path) = test_metrics_set[i][1]
                    /\ ClaimedModel(path) = test_metrics_set[i][2][j][1]
                    /\ PassesFilters(path)
        /\ \A i \in 1..Len(test_metrics_set) : test_metrics_set[i][2] # <<>>

\* The prediction files of a listing as the specification names them, and
\* the name of one: the file name without the basename in front and the
\* extension behind, and without separators.
ClaimedPredictionFiles(filenames) ==
    {i \in 1..Len(filenames) :
        /\ StartsWith(filenames[i], test_prediction_basename)
        /\ EndsWith(filenames[i], zipped_pickle_extension)}

NotSeparator(c) == c # "-"

ClaimedPredictionName(filename) ==
    SelectSeq(SubSeq(filename, Len(test_prediction_basename) + 1,
                     Len(filename) - Len(zipped_pickle_extension)),
              NotSeparator)

\* The prediction mapping of the record the last pass stored.
LastPredictions ==
    LET parts == DataSetModelParts(walk.last.path,
                                   walk.args.results_directory)
        record == Lookup(Lookup(test_metrics_set, DataSetOf(parts)).value,
                         ModelOf(parts)).value
    IN  IF "predictions" \in DOMAIN record THEN record.predictions ELSE <<>>

\* The last pass stored a record, for a directory with the metrics file
\* and exactly two prediction files.
LastStoredWithTwoPredictionFiles ==
    /\ walk.last.path # <<>>
    /\ Kept(walk.last.path, walk.last.filenames, walk.args)
    /\ Cardinality(ClaimedPredictionFiles(walk.last.filenames)) = 2

\* C3 as stated: a directory with the metrics file and any two distinct
\* prediction files gives a prediction mapping of exactly two entries,
\* keyed by the names derived from the two file names.
C3_Original ==
    LastStoredWithTwoPredictionFiles =>
        /\ Len(LastPredictions) = 2
        /\ {LastPredictions[k][1] : k \in 1..Len(LastPredictions)}
            = {ClaimedPredictionName(walk.last.filenames[i]) :
                    i \in ClaimedPredictionFiles(walk.last.filenames)}

\* C3, amended: a directory with the metrics file and two prediction files
\* whose derived prediction names differ gives a prediction mapping of
\* exactly two entries, keyed by these two names.
C3_TwoEntriesForTwoDerivedNames ==
    (/\ LastStoredWithTwoPredictionFiles
     /\ \A i, j \in ClaimedPredictionFiles(walk.last.filenames) :
            i # j => ClaimedPredictionName(walk.last.filenames[i])
                        # ClaimedPredictionName(walk.last.filenames[j])) =>
        /\ Len(LastPredictions) = 2
        /\ {LastPredictions[k][1] : k \in 1..Len(LastPredictions)}
            = {ClaimedPredictionName(walk.last.filenames[i]) :
                    i \in ClaimedPredictionFiles(walk.last.filenames)}

\* A model directory with the metrics file, "test-prediction-a.pkl.gz" and
\* "test-prediction-b.pkl.gz" among other files: predictions "b" and "a".
C3_Witness ==
    /\ LastStoredWithTwoPredictionFiles
    /\ Len(walk.last.filenames) = 5
    /\ Len(LastPredictions) = 2
    /\ LastPredictions[1][1] = <<"b">>
    /\ LastPredictions[2][1] = <<"a">>
    /\ LastPredictions[2][2].file
        = PathJoin(walk.last.path, FilePredictionA)

\* ----------------------------------------------------------------- C11

RECURSIVE OccurrencesFrom(_, _, _)
\* The occurrences of pattern in s from index i on, from the left and not
\* overlapping.
OccurrencesAfterMatch(pattern, s, m) ==
    IF ~m.found THEN <<>>
    ELSE <<m>> \o OccurrencesFrom(pattern, s, m.end)

OccurrencesFrom(pattern, s, i) ==
    OccurrencesAfterMatch(pattern, s, SearchFrom(pattern, s, i))

RECURSIVE ReplaceOccurrences(_, _, _, _)
\* s from index i on with each of the occurrences replaced by new.
ReplaceOccurrences(s, occurrences, new, i) ==
    IF occurrences = <<>> THEN SubSeq(s, i, Len(s))
    ELSE SubSeq(s, i, Head(occurrences).start - 1) \o new
            \o ReplaceOccurrences(s, Tail(occurrences), new,
                                  Head(occurrences).end)

\* C11: in a pass of titleFromName's inner loop whose replacement is a
\* function, the function is called once, on the first occurrence of the
\* pattern, and the string it returns replaces every occurrence; when the
\* pattern does not occur, the function is not called and the string is
\* left as it is.
C11_FunctionOfFirstOccurrenceReplacesAll ==
    [][(tn.pc = "tables" /\ tn'.pc = "tables" /\ tn'.j = tn.j + 1) =>
        LET entry == tn.replacement_dictionaries[tn.i][tn.j]
            occurrences == OccurrencesFrom(entry.pattern, tn.name, 1)
        IN entry.replacement.callable =>
            IF occurrences = <<>>
                THEN tn'.name = tn.name /\ tn'.calls = <<>>
                ELSE /\ tn'.calls = <<[start |-> occurrences[1].start,
                                       end |-> occurrences[1].end]>>
                     /\ tn'.name = ReplaceOccurrences(
                            tn.name, occurrences,
                            CallReplacementFunction(
                                PiecesOf(entry.replacement, occurrences[1]),
                                occurrences[1]),
                            1)]_vars

\* The pattern -([ab]+) occurs twice in "b-ab-b": the function was called on
\* "-ab" and "/aba" stands for "-ab" and for "-b".
C11_Witness ==
    /\ tn.pc = "tables"
    /\ tn.given = <<"b", "-", "a", "b", "-", "b">>
    /\ tn.replacement_dictionaries = <<TableFunction>>
    /\ tn.i = 1
    /\ tn.j = 2
    /\ tn.calls = <<[start |-> 2, end |-> 5]>>
    /\ tn.name = <<"b", "/", "a", "b", "a", "/", "a", "b", "a">>

\* ----------------------------------------------------------------- C12

\* "MNIST (binarised)"
SegmentDataSet ==
    <<"M", "N", "I", "S", "T", " ", "(", "b", "i", "n", "a", "r", "i", "s",
      "e", "d", ")">>

\* "train split (80 %)"
SegmentSplit ==
    <<"t", "r", "a", "i", "n", " ", "s", "p", "l", "i", "t", " ", "(", "8",
      "0", " ", "%", ")">>

\* "features with Gini index above 0"
SegmentFeatures ==
    <<"f", "e", "a", "t", "u", "r", "e", "s", " ", "w", "i", "t", "h", " ",
      "G", "i", "n", "i", " ", "i", "n", "d", "e", "x", " ", "a", "b", "o",
      "v", "e", " ", "0">>

\* The tables passed in a call of titleFromName: i - 1 tables while the
\* loops stand in table i, all of them afterwards.
TablesPassed ==
    IF tn.pc = "tables" THEN tn.i - 1
    ELSE IF tn.pc \in {"slash", "dash", "underscore", "done"}
        THEN Len(tn.replacement_dictionaries)
    ELSE 0

\* C12: titleFromDataSetName of
\* "mnist_binarised-split-train_0.8-keep_gini_indices_above_0.5" returns
\* "MNIST (binarised)", "train split (80 %)" and "features with Gini index
\* above 0" joined with "; ", and a segment made by one table is in the name
\* from then on: no later table rewrites it.
C12_ExampleTitleOfThreeSegments ==
    (tn.pc \notin {"idle", "titleFromDataSetName"}
        /\ tn.given = ExampleDataSetName) =>
        /\ tn.pc \notin {"ValueError", "OverflowError"}
        /\ TablesPassed >= 1 => IsSubstring(SegmentDataSet, tn.name)
        /\ TablesPassed >= 2 => IsSubstring(SegmentSplit, tn.name)
        /\ TablesPassed >= 3 => IsSubstring(SegmentFeatures, tn.name)
        /\ tn.pc = "done" =>
            tn.name = SegmentDataSet \o <<";", " ">> \o SegmentSplit
                        \o <<";", " ">> \o SegmentFeatures

\* The call on the example name has returned its title.
C12_Witness ==
    /\ tn.pc = "done"
    /\ tn.given = ExampleDataSetName
    /\ Len(tn.replacement_dictionaries) = 6
    /\ IsSubstring(SegmentSplit \o <<";", " ">> \o SegmentFeatures, tn.name)

\* ----------------------------------------------------------------- C13

\* The ELBOs and ARIs of the correlation sets are numbers.
CorrelationSetsOfNumbers(correlation_sets) ==
    \A i \in 1..Len(correlation_sets) :
        \A k \in 1..Len(correlation_sets[i][2].ELBO) :
            /\ IsNumber(correlation_sets[i][2].ELBO[k])
            /\ IsNumber(correlation_sets[i][2].ARI[k])

\* C13: when main comes to the correlations of a data set that has
\* correlation sets, the coefficient is computed for exactly the sets of at
\* least two (ELBO, ARI) pairs, from all their pairs; a set of fewer pairs
\* is not in the correlation table that is printed, and the step ends in no
\* exception.  (A set has at least one pair: it is made for its first.)
C13_CoefficientOnlyForTwoPairs ==
    [][(/\ run.pc = "correlations"
        /\ run.correlation_sets # <<>>
        /\ CorrelationSetsOfNumbers(run.correlation_sets)) =>
            /\ run'.pc = "fields"
            /\ Len(run'.printed) = Len(run.printed) + 1
            /\ LET table == run'.printed[Len(run'.printed)] IN
                /\ table.kind = "correlations"
                /\ \A i \in 1..Len(run.correlation_sets) :
                    LET set_name == run.correlation_sets[i][1]
                        correlation_set == run.correlation_sets[i][2]
                    IN /\ Len(correlation_set.ELBO) >= 1
                       /\ Len(correlation_set.ARI) = Len(correlation_set.ELBO)
                       /\ HasKey(table.content, set_name)
                            <=> Len(correlation_set.ELBO) >= 2
                       /\ HasKey(table.content, set_name) =>
                            DictGet(table.content, set_name).r
                                = [ELBO |-> correlation_set.ELBO,
                                   ARI |-> correlation_set.ARI]
                /\ \A j \in 1..Len(table.content) :
                        HasKey(run.correlation_sets, table.content[j][1])
    ]_vars

\* The correlations of a data set are printed: one set has two pairs and is
\* in the table, another has one pair and is not.
C13_Witness ==
    /\ run.pc = "fields"
    /\ run.printed # <<>>
    /\ run.printed[Len(run.printed)].kind = "correlations"
    /\ Len(run.printed[Len(run.printed)].content) = 1
    /\ \E i, j \in 1..Len(run.correlation_sets) :
        /\ Len(run.correlation_sets[i][2].ELBO) = 1
        /\ Len(run.correlation_sets[j][2].ELBO) = 2
        /\ HasKey(run.printed[Len(run.printed)].content,
                  run.correlation_sets[j][1])

\* ----------------------------------------------------------------- C14

\* The segments of a model title.
Segments(model_title) == SplitOnString(model_title, title_separator)

\* The fields the claim gives a row whose title has at least four segments.
ClaimedFields(model_fields, model_title) ==
    LET segments == Segments(model_title)
        n == Len(segments)
    IN /\ DictGet(model_fields, "type") = PyStr(segments[1])
       /\ DictGet(model_fields, "distribution") = PyStr(segments[2])
       /\ DictGet(model_fields, "sizes") = PyStr(segments[3])
       /\ DictGet(model_fields, "epochs")
            = PyStr(StrReplace(segments[n],
                               <<" ", "e", "p", "o", "c", "h", "s">>, <<>>))
       /\ DictGet(model_fields, "other")
            = PyStr(JoinString(title_separator, SubSeq(segments, 4, n - 1)))
       /\ n = 4 => DictGet(model_fields, "other") = PyStr(<<>>)

\* C14: the step that derives the comparison fields gives every row its
\* type, distribution and sizes from the first three segments of its title,
\* its epochs from the last one without " epochs" and its other from the
\* segments between, joined by "; ", if every title has at least four
\* segments; the first title of fewer segments ends the run in an
\* IndexError, the row of that title is left without the fields, and
\* nothing is printed.
C14_FieldsIffFourSegments ==
    [][run.pc = "fields" =>
        LET short == {k \in 1..Len(run.comparisons) :
                        Len(Segments(run.comparisons[k][1])) < 4}
            done == IF short = {} THEN Len(run.comparisons)
                    ELSE (CHOOSE k \in short : \A j \in short : k <= j) - 1
        IN /\ (run'.pc = "IndexError") <=> (short # {})
           /\ Len(run'.comparisons) = Len(run.comparisons)
           /\ \A k \in 1..done :
                /\ run'.comparisons[k][1] = run.comparisons[k][1]
                /\ ClaimedFields(run'.comparisons[k][2],
                                 run.comparisons[k][1])
           /\ \A k \in (done + 1)..Len(run.comparisons) :
                run'.comparisons[k] = run.comparisons[k]
           /\ run'.printed = run.printed
    ]_vars

\* The run has ended in the IndexError of a title of three segments, after
\* the row of a title of four segments got its fields, an empty other among
\* them.
C14_Witness ==
    /\ run.pc = "IndexError"
    /\ Len(run.comparisons) = 2
    /\ Len(Segments(run.comparisons[1][1])) = 4
    /\ Len(Segments(run.comparisons[2][1])) = 3
    /\ HasKey(run.comparisons[1][2], "other")
    /\ DictGet(run.comparisons[1][2], "other") = PyStr(<<>>)
    /\ ~HasKey(run.comparisons[2][2], "type")

\* ----------------------------------------------------------------- C15

\* A prediction matches none of the prediction filters: matchString is
\* falsy on every composite key "<prediction string>; <key>" of it.
Unmatched(prediction, included, excluded) ==
    \A k \in 1..Len(prediction) :
        ~Truthy(matchString(PredictionString(prediction)
                                \o title_separator \o prediction[k][1],
                            included, excluded))

\* The predictions of the model of a report entry, as test_metrics_set
\* holds them.
PredictionsOf(entry) ==
    LET models == DictGet(test_metrics_set, entry.data_set)
        test_metrics == DictGet(models, entry.model)
    IN IF "predictions" \in DOMAIN test_metrics
        THEN test_metrics.predictions ELSE <<>>

\* The lines of a report entry before the ones of its predictions: the ID,
\* the time stamp, the epochs, the losses, the accuracies, the statistics.
MetricsLinesOf(entry) ==
    MetricsStringParts(
        DictGet(DictGet(test_metrics_set, entry.data_set), entry.model),
        entry.ID).lines

\* C15 as it is stated: a prediction that matches none of the prediction
\* filters is not in the prediction mapping of its record.
C15_Original ==
    run.pc # "start" =>
        \A k \in 1..Len(run.report) :
            \A i \in 1..Len(PredictionsOf(run.report[k])) :
                ~Unmatched(PredictionsOf(run.report[k])[i][2],
                           run.prediction_included_strings,
                           run.prediction_excluded_strings)

\* C15, amended: every prediction stays in the prediction mapping of its
\* record, and what a model adds to its report, to its ARI list and to the
\* correlation sets is what its predictions with a matching composite key
\* add: a prediction that matches none of the filters adds no line, no ARI
\* value and no pair, and a model all of whose predictions match none has
\* the lines of its metrics only.
C15_UnmatchedContributesNothing ==
    [][(run.pc = "model" /\ run'.pc = "model"
            /\ run'.model = run.model + 1) =>
        LET entry == run'.report[Len(run'.report)]
            predictions == PredictionsOf(entry)
            included == run.prediction_included_strings
            excluded == run.prediction_excluded_strings
            Matched(item) == ~Unmatched(item[2], included, excluded)
            matched ==
                ReportPredictions(
                    [raised |-> FALSE,
                     lines |-> MetricsLinesOf(entry),
                     correlation_sets |-> run.correlation_sets,
                     model_ARIs |-> <<>>],
                    SelectSeq(predictions, Matched), included, excluded,
                    DictGet(DictGet(run'.comparisons, entry.title),
                            "ELBO"))
        IN /\ test_metrics_set' = test_metrics_set
           /\ ~matched.raised
           /\ entry.lines = matched.lines
           /\ DictGet(DictGet(run'.comparisons, entry.title), "ARI")
                = PyList(matched.model_ARIs)
           /\ run'.correlation_sets = matched.correlation_sets
           /\ SelectSeq(predictions, Matched) = <<>> =>
                /\ entry.lines = MetricsLinesOf(entry)
                /\ DictGet(DictGet(run'.comparisons, entry.title), "ARI")
                        = PyList(<<>>)
                /\ run'.correlation_sets = run.correlation_sets
    ]_vars

\* The first model is reported under a filter that one of its predictions
\* matches and the other, which has an ARI of clusters above 0, does not:
\* the report has the lines of the one, and one correlation set is made.
C15_Witness ==
    /\ run.pc = "model"
    /\ Len(run.report) = 1
    /\ run.prediction_included_strings # <<>>
    /\ \E i, j \in 1..Len(PredictionsOf(run.report[1])) :
        /\ Unmatched(PredictionsOf(run.report[1])[i][2],
                     run.prediction_included_strings,
                     run.prediction_excluded_strings)
        /\ Less(PyInt(0),
                DictGet(PredictionsOf(run.report[1])[i][2], ARI_clusters))
        /\ ~Unmatched(PredictionsOf(run.report[1])[j][2],
                      run.prediction_included_strings,
                      run.prediction_excluded_strings)
    /\ Len(run.report[1].lines) = Len(MetricsLinesOf(run.report[1])) + 4
    /\ Len(run.correlation_sets) = 1

\* ----------------------------------------------------------------- C16

\* A value of a type the table does not support: no str, float, int or
\* list.
Unsupported(field_value) ==
    /\ ~IsInstance(field_value, "str")
    /\ ~IsInstance(field_value, "float")
    /\ ~IsInstance(field_value, "int")
    /\ ~IsInstance(field_value, "list")

\* C16: when the fields of the comparison table are formatted and a field
\* of some row holds a value of an unsupported type, the run stops in a
\* TypeError, so that no such value becomes a cell of the table.
C16_UnsupportedTypeRaisesTypeError ==
    [][(/\ run.pc = "format"
        /\ \E k \in 1..Len(run.comparisons) :
            \E j \in 1..Len(run.comparisons[k][2]) :
                Unsupported(run.comparisons[k][2][j][2])) =>
            run'.pc = "TypeError"
    ]_vars

\* ----------------------------------------------------------------- C17

\* The rows of the heat map that are not above the cut-off, as indices of
\* comparisons, and the label, the ELBO and the architecture <<h, l>> of a
\* row.
RowLabel(k) == DictGet(run.comparisons[k][2], "epochs").val

RowELBO(k) == DictGet(run.comparisons[k][2], "ELBO")

RowArchitecture(k) ==
    RSplitTimes(DictGet(run.comparisons[k][2], "sizes").val)

EligibleRows ==
    {k \in 1..Len(run.comparisons) :
        /\ DictGet(run.comparisons[k][2], "type").val = heat_map_type
        /\ DictGet(run.comparisons[k][2], "distribution").val
                = heat_map_distribution
        /\ DictGet(run.comparisons[k][2], "other").val = heat_map_other
        /\ ~AboveCutOff(int(Split(RowLabel(k))[1]).value,
                        run.epoch_cut_off)}

\* The label kept for the architecture <<h, l>>, if one is kept, and the
\* cell the frame has for it.
HasKept(h, l) ==
    /\ HasKey(run.network_architecture_epochs, l)
    /\ HasKey(DictGet(run.network_architecture_epochs, l), h)

KeptLabel(h, l) == DictGet(DictGet(run.network_architecture_epochs, l), h)

FrameCell(frame, h, l) ==
    frame.values[CHOOSE i \in 1..Len(frame.index) : frame.index[i] = h]
                [CHOOSE j \in 1..Len(frame.columns) : frame.columns[j] = l]

\* An eligible row of the architecture <<h, l>> has the kept label and
\* this ELBO.
KeptOfEligibleRow(h, l, ELBO) ==
    \E k \in EligibleRows :
        /\ RowArchitecture(k) = <<h, l>>
        /\ ELBO = RowELBO(k)
        /\ KeptLabel(h, l) = RowLabel(k)

\* C17: when the selection for the heat map is made, whatever the order of
\* the rows, every architecture of an eligible row (type "VAE(G)",
\* distribution "NB", other "BN", epochs not above the cut-off) has a kept
\* label that bestModelVersion prefers to, or ranks with, the label of
\* every eligible row of that architecture (a lone row is kept as it is),
\* and the kept label and ELBO of an architecture are the label and the
\* ELBO of one of its eligible rows, never of a row above the cut-off:
\* in the two dicts when the loop over the rows has ended, and, when the
\* dict of the ELBOs has given way to the frame, in the dict of the labels
\* and in the cells of the frame, whose cell of every architecture with a
\* kept label is the kept ELBO and whose other cells are nan.
C17_KeptIsBestEligibleVersion ==
    /\ run.pc \in {"frame", "format"} =>
        \A k \in EligibleRows :
            LET h == RowArchitecture(k)[1]
                l == RowArchitecture(k)[2]
            IN /\ HasKept(h, l)
               /\ LET best == bestModelVersion(KeptLabel(h, l), RowLabel(k))
                  IN IF best.raised THEN KeptLabel(h, l) = RowLabel(k)
                     ELSE best.value = KeptLabel(h, l)
    /\ run.pc = "frame" =>
        /\ Len(run.network_architecture_ELBOs)
                = Len(run.network_architecture_epochs)
        /\ \A i \in 1..Len(run.network_architecture_ELBOs) :
            LET l == run.network_architecture_ELBOs[i][1] IN
            \A j \in 1..Len(run.network_architecture_ELBOs[i][2]) :
                LET h == run.network_architecture_ELBOs[i][2][j][1] IN
                KeptOfEligibleRow(h, l,
                                  run.network_architecture_ELBOs[i][2][j][2])
    /\ run.pc = "format" =>
        IF run.network_architecture_epochs = <<>>
            THEN run.network_architecture_ELBOs = <<>>
        ELSE LET frame == run.network_architecture_ELBOs IN
            /\ \A i \in 1..Len(run.network_architecture_epochs) :
                LET l == run.network_architecture_epochs[i][1] IN
                /\ \E j \in 1..Len(frame.columns) : frame.columns[j] = l
                /\ \A j \in 1..Len(run.network_architecture_epochs[i][2]) :
                    \E m \in 1..Len(frame.index) :
                        frame.index[m]
                            = run.network_architecture_epochs[i][2][j][1]
            /\ \A i \in 1..Len(frame.index) :
                \A j \in 1..Len(frame.columns) :
                    IF HasKept(frame.index[i], frame.columns[j])
                        THEN KeptOfEligibleRow(frame.index[i],
                                               frame.columns[j],
                                               frame.values[i][j])
                        ELSE frame.values[i][j] = PyNaN

\* The selection is made under a cut-off of 15 epochs from five rows: the
\* early-stopped version is met first, the plain version of 5 epochs after
\* it is kept, and the versions of 30 and of 20 (*) epochs, met last, are
\* above the cut-off.  The frame has the ELBO of the kept row in the cell
\* of its architecture.
C17_Witness ==
    /\ run.pc = "format"
    /\ run.epoch_cut_off = PyInt(15)
    /\ Len(run.comparisons) = 5
    /\ RowLabel(2) = <<"1", "0", " ", "(", "E", "S", ")">>
    /\ RowLabel(3) = <<"5">>
    /\ RowLabel(5) = <<"2", "0", " ", "(", "*", ")">>
    /\ KeptLabel(<<"1", "0", "0">>, <<"2">>) = <<"5">>
    /\ FrameCell(run.network_architecture_ELBOs, <<"1", "0", "0">>, <<"2">>)
            = RowELBO(3)

\* ----------------------------------------------------------------- C18

\* The ID a row of a printed comparison table starts with, the report
\* entry of the model that got that ID, and the lower bound main read for
\* that model.
TableRowID(row) == SubSeq(row, 1, 2)

EntryOfID(ID) ==
    run.report[CHOOSE k \in 1..Len(run.report) : run.report[k].ID = ID]

LowerBoundOfID(ID) ==
    ModelLowerBound(
        DictGet(DictGet(test_metrics_set, EntryOfID(ID).data_set),
                EntryOfID(ID).model))

\* The titles of the models reported for the d-th data set: its comparison
\* rows.
TitlesOfDataSet(d) ==
    {run.report[k].title :
        k \in {j \in 1..Len(run.report) :
                run.report[j].data_set = test_metrics_set[d][1]}}

\* C18: a printed comparison table has, below its heading and its rule,
\* one row for every comparison row of its data set, and when the lower
\* bounds main read for the models of the rows are all numbers, ints or
\* floats, they do not increase down the table: no row has a lower bound
\* less than that of a row below it, though the table is made after the
\* ELBOs were rewritten to strings; and whatever is printed for a data set
\* after its models, a correlation table or a comparison table, is printed
\* for a data set of at least two comparison rows, each of which gets its
\* comparison table if the run comes to its end.
C18_RowsByDescendingELBO ==
    run.pc \notin {"idle", "start"} =>
        /\ \A i \in 1..Len(run.printed) :
            /\ Cardinality(TitlesOfDataSet(run.printed[i].data_set)) >= 2
            /\ run.printed[i].kind = "comparison" =>
                LET rows == SubSeq(run.printed[i].content, 3,
                                   Len(run.printed[i].content))
                IN /\ Len(rows)
                        = Cardinality(TitlesOfDataSet(
                                        run.printed[i].data_set))
                   /\ \A k \in 1..Len(rows) :
                        /\ \E j \in 1..Len(run.report) :
                                run.report[j].ID = TableRowID(rows[k])
                        /\ EntryOfID(TableRowID(rows[k])).data_set
                            = test_metrics_set[run.printed[i].data_set][1]
                   /\ (\A k \in 1..Len(rows) :
                        IsNumber(LowerBoundOfID(TableRowID(rows[k]))))
                        => \A k \in 1..Len(rows) :
                            \A m \in (k + 1)..Len(rows) :
                                ~Less(LowerBoundOfID(TableRowID(rows[k])),
                                      LowerBoundOfID(TableRowID(rows[m])))
        /\ run.pc = "done" =>
            \A d \in 1..Len(test_metrics_set) :
                Cardinality(TitlesOfDataSet(d)) >= 2 =>
                    \E i \in 1..Len(run.printed) :
                        /\ run.printed[i].data_set = d
                        /\ run.printed[i].kind = "comparison"

=============================================================================
